---- MODULE Spec2Model ----
(***************************************************************************)
(* Model of the libocispec generated JSON binding code vendored under      *)
(* crun-1.23.1: make_* (decode), gen_* (encode), clone_* and free_* of the *)
(* record types of runtime_spec_schema_features_linux.c and                *)
(* runtime_spec_schema_defs_zos.c, over an explicit heap so that           *)
(* ownership, sharing and double frees are observable.                     *)
(***************************************************************************)
EXTENDS Integers, Sequences, FiniteSets, TLC

VARIABLES heap,    \* the allocator's cells, by address 1..Len(heap)
          doc,     \* the parsed input: its type, tree address, abstract value
          rec,     \* result of make_*: [a |-> record, err |-> message cell]
          cln,     \* result of clone_*: [a |-> record]
          last,    \* outcome of the most recent call (kind, status, emitted calls)
          hist,    \* which operations already ran, and what they observed
          ub       \* undefined behaviour has been executed

vars == <<heap, doc, rec, cln, last, hist, ub>>

(***************************************************************************)
(* Bounds of the exploration.                                              *)
(***************************************************************************)
MaxKeys == 2       \* entries of a generated input object
MaxEmit == 12      \* an emitter failure is injected at call 1..MaxEmit
MaxFail == 4       \* an allocation failure is injected at call 1..MaxFail
MaxDeep == 8       \* the same, for a decode followed by no other call

(***************************************************************************)
(* Abstract JSON values (what the external parser was given).              *)
(***************************************************************************)
J(t, s, ks, vs) == [t |-> t, s |-> s, keys |-> ks, values |-> vs]
JTrue == J("true", "", <<>>, <<>>)
JFalse == J("false", "", <<>>, <<>>)
JNull == J("null", "", <<>>, <<>>)
JStr(s) == J("string", s, <<>>, <<>>)
JNum(s) == J("number", s, <<>>, <<>>)
JArr(vs) == J("array", "", <<>>, vs)
JObj(ks, vs) == J("object", "", ks, vs)
NullKey == "<NULL>"                    \* a key slot holding the NULL pointer
JNULL == J("NULL", "", <<>>, <<>>)     \* a value slot holding the NULL pointer

(***************************************************************************)
(* The heap.  A machine m = [heap, nalloc, failAt, ub, warn] is threaded   *)
(* through every call; address 0 is NULL.                                  *)
(***************************************************************************)
StrCell(s) == [kind |-> "str", frees |-> 0, s |-> s]
ArrCell(p) == [kind |-> "arr", frees |-> 0, p |-> p]
NodeCell(type, str, keys, values, len) ==
    [kind |-> "node", frees |-> 0, type |-> type, str |-> str,
     keys |-> keys, values |-> values, len |-> len]

Machine(h, failAt) == [heap |-> h, nalloc |-> 0, failAt |-> failAt, ub |-> FALSE, warn |-> 0]

\* malloc/calloc/strdup/asprintf: the failAt-th allocation of the call returns NULL
calloc(m, cell) ==
    IF m.nalloc + 1 = m.failAt
    THEN [m |-> [m EXCEPT !.nalloc = @ + 1], a |-> 0]
    ELSE [m |-> [m EXCEPT !.nalloc = @ + 1, !.heap = Append(@, cell)],
          a |-> Len(m.heap) + 1]

strdup(m, s) == calloc(m, StrCell(s))

\* free(3): NULL is ignored; freeing a freed cell is a double free
free(m, a) ==
    IF a = 0 THEN m
    ELSE [m EXCEPT !.heap[a].frees = @ + 1, !.ub = @ \/ m.heap[a].frees > 0]

(***************************************************************************)
(* The external tree builder: lays an abstract value out as yajl nodes at  *)
(* the end of heap h and returns [h, a], a the address of the root node.   *)
(***************************************************************************)
RECURSIVE BuildVal(_, _), BuildSeq(_, _, _)
BuildSeq(h, vs, i) ==
    IF i > Len(vs) THEN [p |-> <<>>, h |-> h]
    ELSE LET x == BuildVal(h, vs[i])
             r == BuildSeq(x.h, vs, i + 1)
         IN [p |-> <<x.a>> \o r.p, h |-> r.h]

\* one string cell per key
BuildKeys(h, ks) ==
    [p |-> [i \in 1..Len(ks) |-> Len(h) + i],
     h |-> h \o [i \in 1..Len(ks) |-> StrCell(ks[i])]]

BuildVal(h, v) ==
    CASE v.t \in {"string", "number"} ->
           [a |-> Len(h) + 2,
            h |-> h \o <<StrCell(v.s), NodeCell(v.t, Len(h) + 1, 0, 0, 0)>>]
      [] v.t = "array" ->
           LET e == BuildSeq(h, v.values, 1) IN
           [a |-> Len(e.h) + 2,
            h |-> e.h \o <<ArrCell(e.p),
                           NodeCell("array", 0, 0, Len(e.h) + 1, Len(v.values))>>]
      [] v.t = "object" ->
           LET k == BuildKeys(h, v.keys)
               e == BuildSeq(k.h, v.values, 1)
           IN [a |-> Len(e.h) + 3,
               h |-> e.h \o <<ArrCell(k.p), ArrCell(e.p),
                              NodeCell("object", 0, Len(e.h) + 1, Len(e.h) + 2,
                                       Len(v.keys))>>]
      [] OTHER -> [a |-> Len(h) + 1, h |-> Append(h, NodeCell(v.t, 0, 0, 0, 0))]

\* the abstract value a tree address currently denotes (NULL slots shown)
RECURSIVE ReadVal(_, _), ReadVals(_, _, _, _), ReadKeys(_, _, _, _)
ReadVals(h, arr, len, i) ==
    IF i > len THEN <<>>
    ELSE <<ReadVal(h, h[arr].p[i])>> \o ReadVals(h, arr, len, i + 1)
ReadKeys(h, arr, len, i) ==
    IF i > len THEN <<>>
    ELSE <<IF h[arr].p[i] = 0 THEN NullKey ELSE h[h[arr].p[i]].s>>
           \o ReadKeys(h, arr, len, i + 1)
ReadVal(h, a) ==
    IF a = 0 THEN JNULL
    ELSE LET n == h[a] IN
      CASE n.type \in {"string", "number"} -> J(n.type, h[n.str].s, <<>>, <<>>)
        [] n.type = "array" -> JArr(ReadVals(h, n.values, n.len, 1))
        [] n.type = "object" ->
             JObj(ReadKeys(h, n.keys, n.len, 1), ReadVals(h, n.values, n.len, 1))
        [] OTHER -> J(n.type, "", <<>>, <<>>)

\* yajl_tree_free: NULL is ignored; strings, keys, values, arrays, then the node
RECURSIVE yajl_tree_free(_, _), FreeVals(_, _, _, _), FreeKeys(_, _, _, _)
FreeVals(m, arr, len, i) ==
    IF arr = 0 \/ i > len THEN m
    ELSE FreeVals(yajl_tree_free(m, m.heap[arr].p[i]), arr, len, i + 1)
FreeKeys(m, arr, len, i) ==
    IF arr = 0 \/ i > len THEN m
    ELSE FreeKeys(free(m, m.heap[arr].p[i]), arr, len, i + 1)
yajl_tree_free(m, v) ==
    IF v = 0 THEN m
    ELSE LET n == m.heap[v] IN
      CASE n.type \in {"string", "number"} -> free(free(m, n.str), v)
        [] n.type = "array" ->
             free(free(FreeVals(m, n.values, n.len, 1), n.values), v)
        [] n.type = "object" ->
             free(free(free(FreeVals(FreeKeys(m, n.keys, n.len, 1),
                                     n.values, n.len, 1), n.keys), n.values), v)
        [] OTHER -> free(m, v)

\* get_val (tree, name, type): the value of the first key equal to name, when
\* the tree is an object and the value's kind is type; NULL otherwise
get_val(h, tree, name, type) ==
    LET n == h[tree] IN
    IF n.type # "object" THEN 0
    ELSE LET hits == {i \in 1..n.len :
                        h[n.keys].p[i] # 0 /\ h[h[n.keys].p[i]].s = name}
         IN IF hits = {} THEN 0
            ELSE LET i == CHOOSE j \in hits : \A k \in hits : j <= k
                     v == h[n.values].p[i]
                 IN IF v # 0 /\ h[v].type = type THEN v ELSE 0

(***************************************************************************)
(* Field schemas: what the generator was given for each record type, in    *)
(* the order the generated functions handle the fields.                    *)
(***************************************************************************)
D(name, kind, required, nested) ==
    [name |-> name, kind |-> kind, required |-> required, nested |-> nested]
EnabledOnly == <<D("enabled", "bool", FALSE, "")>>

Schema(ty) ==
    CASE ty = "namespace_reference" ->
           <<D("type", "string", TRUE, ""), D("path", "string", FALSE, "")>>
      [] ty = "cgroup" ->
           <<D("v1", "bool", FALSE, ""), D("v2", "bool", FALSE, ""),
             D("systemd", "bool", FALSE, ""), D("systemdUser", "bool", FALSE, ""),
             D("rdma", "bool", FALSE, "")>>
      [] ty = "seccomp" ->
           <<D("enabled", "bool", FALSE, ""), D("actions", "strarr", FALSE, ""),
             D("operators", "strarr", FALSE, ""), D("archs", "strarr", FALSE, ""),
             D("knownFlags", "strarr", FALSE, ""),
             D("supportedFlags", "strarr", FALSE, "")>>
      [] ty = "mount_extensions" -> <<D("idmap", "nested", FALSE, "idmap")>>
      [] ty = "features_linux" ->
           <<D("namespaces", "strarr", FALSE, ""), D("capabilities", "strarr", FALSE, ""),
             D("cgroup", "nested", FALSE, "cgroup"),
             D("seccomp", "nested", FALSE, "seccomp"),
             D("apparmor", "nested", FALSE, "apparmor"),
             D("selinux", "nested", FALSE, "selinux"),
             D("intelRdt", "nested", FALSE, "intel_rdt"),
             D("mountExtensions", "nested", FALSE, "mount_extensions"),
             D("netDevices", "nested", FALSE, "net_devices")>>
      [] OTHER -> EnabledOnly   \* apparmor, selinux, intel_rdt, idmap, net_devices

Names(ty) == {Schema(ty)[i].name : i \in 1..Len(Schema(ty))}

\* a record as calloc (1, sizeof (*ret)) leaves it: every flag clear, every
\* pointer NULL, every length 0
Slot0 == [b |-> FALSE, present |-> FALSE, p |-> 0, len |-> 0]
RecCell(ty) ==
    [kind |-> "rec", frees |-> 0, ty |-> ty,
     f |-> [n \in Names(ty) |-> Slot0], residual |-> 0]

OPT_PARSE_STRICT == "OPT_PARSE_STRICT"
OPT_GEN_SIMPLIFY == "OPT_GEN_SIMPLIFY"
OPT_PARSE_FULLKEY == "OPT_PARSE_FULLKEY"
OPT_GEN_KEY_VALUE == "OPT_GEN_KEY_VALUE"
Options == {OPT_PARSE_STRICT, OPT_GEN_SIMPLIFY, OPT_PARSE_FULLKEY, OPT_GEN_KEY_VALUE}

YAJL_GET_STRING(h, v) == IF h[v].type = "string" THEN h[v].str ELSE 0

\* K applied to the value of one statement: the statements of a function
\* body are bound one after the other, in program order
Bind(v, K(_)) == K(v)

\* the two ways a step of make_* or clone_* ends: [m, ok, err], ok = FALSE
\* being a "return NULL" of the enclosing function
Ok(m) == [m |-> m, ok |-> TRUE, err |-> 0]
Fail(m, err) == [m |-> m, ok |-> FALSE, err |-> err]

(***************************************************************************)
(* free_*: the generated release functions.                                *)
(***************************************************************************)
RECURSIVE FreeElems(_, _, _, _)
\* the array block of free_* without its loop over the elements
FreeElemsNone(m, arr, len, i) == m
FreeElems(m, arr, len, i) ==
    IF i > len THEN m
    ELSE LET e == m.heap[arr].p[i]
         IN FreeElems(IF e # 0 THEN [free(m, e) EXCEPT !.heap[arr].p[i] = 0] ELSE m,
                      arr, len, i + 1)

RECURSIVE free_record(_, _, _), FreeFields(_, _, _, _)
FreeFields(ty, m, ptr, k) ==
    IF k > Len(Schema(ty)) THEN m
    ELSE LET d == Schema(ty)[k]
             s == m.heap[ptr].f[d.name]
             m1 == CASE d.kind = "string" ->
                          [free(m, s.p) EXCEPT !.heap[ptr].f[d.name].p = 0]
                     [] d.kind = "strarr" /\ s.p # 0 ->
                          [free(FreeElems(m, s.p, s.len, 1), s.p)
                             EXCEPT !.heap[ptr].f[d.name].p = 0]
                     [] d.kind = "nested" /\ s.p # 0 ->
                          [free_record(d.nested, m, s.p)
                             EXCEPT !.heap[ptr].f[d.name].p = 0]
                     [] OTHER -> m
         IN FreeFields(ty, m1, ptr, k + 1)

\* free_* releasing the record cell alone and none of its members
free_record_Shallow(ty, m, ptr) == IF ptr = 0 THEN m ELSE free(m, ptr)

free_record(ty, m, ptr) ==
    IF ptr = 0 THEN m
    ELSE Bind(FreeFields(ty, m, ptr, 1), LAMBDA m1 :
           free([yajl_tree_free(m1, m1.heap[ptr].residual)
                   EXCEPT !.heap[ptr].residual = 0], ptr))

(***************************************************************************)
(* make_*: the generated decode functions.  Every step returns             *)
(* [m, ok, err]; ok = FALSE is a "return NULL" of the enclosing make_*.    *)
(***************************************************************************)
\* tri-state boolean field
\* the boolean block without its else branch (the yajl_t_false lookup)
DecodeBoolTrueOnly(m, tree, ret, name) ==
    Bind(get_val(m.heap, tree, name, "true"), LAMBDA val :
      IF val # 0
      THEN Ok([m EXCEPT !.heap[ret].f[name].b = (m.heap[val].type = "true"),
                        !.heap[ret].f[name].present = TRUE])
      ELSE Ok(m))

DecodeBool(m, tree, ret, name) ==
    Bind(get_val(m.heap, tree, name, "true"), LAMBDA val :
      IF val # 0
      THEN Ok([m EXCEPT !.heap[ret].f[name].b = (m.heap[val].type = "true"),
                        !.heap[ret].f[name].present = TRUE])
      ELSE IF get_val(m.heap, tree, name, "false") # 0
           THEN Ok([m EXCEPT !.heap[ret].f[name].b = FALSE,
                             !.heap[ret].f[name].present = TRUE])
           ELSE Ok(m))

\* the text strdup (str ? str : "") copies for value val
StrOrEmpty(h, val) ==
    LET str == YAJL_GET_STRING(h, val) IN IF str # 0 THEN h[str].s ELSE ""

\* the string block looking the key up without regard to the value's kind
DecodeStringAnyKind(m, tree, ret, name) ==
    Bind({t \in {"string", "number", "true", "false", "null", "array", "object"} :
            get_val(m.heap, tree, name, t) # 0}, LAMBDA T :
      IF T = {} THEN Ok(m)
      ELSE Bind(strdup(m, StrOrEmpty(m.heap,
                  get_val(m.heap, tree, name, CHOOSE t \in T : TRUE))), LAMBDA x :
             [m |-> [x.m EXCEPT !.heap[ret].f[name].p = x.a],
              ok |-> x.a # 0, err |-> 0]))

\* scalar string field
DecodeString(m, tree, ret, name) ==
    Bind(get_val(m.heap, tree, name, "string"), LAMBDA val :
      IF val = 0 THEN Ok(m)
      ELSE Bind(strdup(m, StrOrEmpty(m.heap, val)), LAMBDA x :
             [m |-> [x.m EXCEPT !.heap[ret].f[name].p = x.a],
              ok |-> x.a # 0, err |-> 0]))

\* the element loop of a string array
RECURSIVE DecodeElems(_, _, _, _, _)
\* the element loop storing the tree's own strings instead of copies of them
DecodeElemsMoved(m, values, arr, len, i) ==
    Ok([m EXCEPT !.heap[arr].p =
          [j \in 1..(len + 1) |->
             IF j <= len /\ m.heap[values].p[j] # 0
             THEN YAJL_GET_STRING(m.heap, m.heap[values].p[j]) ELSE 0]])
DecodeElems(m, values, arr, len, i) ==
    IF i > len THEN Ok(m)
    ELSE LET val == m.heap[values].p[i] IN
         IF val = 0 THEN DecodeElems(m, values, arr, len, i + 1)
         ELSE Bind(strdup(m, StrOrEmpty(m.heap, val)), LAMBDA x :
                IF x.a = 0 THEN Fail(x.m, 0)
                ELSE DecodeElems([x.m EXCEPT !.heap[arr].p[i] = x.a],
                                 values, arr, len, i + 1))

\* string array field
\* the array block taking an array without elements for a missing one
DecodeStrArrNonEmpty(m, tree, ret, name) ==
    Bind(get_val(m.heap, tree, name, "array"), LAMBDA tmp :
      IF tmp = 0 \/ m.heap[tmp].len = 0 THEN Ok(m)
      ELSE Bind(calloc(m, ArrCell([i \in 1..(m.heap[tmp].len + 1) |-> 0])), LAMBDA x :
             Bind([x.m EXCEPT !.heap[ret].f[name].len = m.heap[tmp].len,
                              !.heap[ret].f[name].p = x.a], LAMBDA m1 :
               IF x.a = 0 THEN Fail(m1, 0)
               ELSE DecodeElems(m1, m.heap[tmp].values, x.a, m.heap[tmp].len, 1))))

DecodeStrArr(m, tree, ret, name) ==
    Bind(get_val(m.heap, tree, name, "array"), LAMBDA tmp :
      IF tmp = 0 THEN Ok(m)
      ELSE Bind(calloc(m, ArrCell([i \in 1..(m.heap[tmp].len + 1) |-> 0])), LAMBDA x :
             Bind([x.m EXCEPT !.heap[ret].f[name].len = m.heap[tmp].len,
                              !.heap[ret].f[name].p = x.a], LAMBDA m1 :
               IF x.a = 0 THEN Fail(m1, 0)
               ELSE DecodeElems(m1, m.heap[tmp].values, x.a, m.heap[tmp].len, 1))))

\* is the key at slot i of the object none of the type's wire names (the
\* strcmp chain); a NULL key slot makes strcmp undefined
KeyAt(h, tree, i) ==
    LET k == h[h[tree].keys].p[i] IN IF k = 0 THEN NullKey ELSE h[k].s
\* the scan taking for unknown also a wire name whose value has another kind
\* than the member
UnknownOrMiskinded(ty, h, tree) ==
    {i \in 1..h[tree].len :
       \/ KeyAt(h, tree, i) \notin Names(ty)
       \/ LET kind == Schema(ty)[CHOOSE k \in 1..Len(Schema(ty)) :
                                   Schema(ty)[k].name = KeyAt(h, tree, i)].kind
              type == h[h[h[tree].values].p[i]].type
          IN CASE kind = "bool" -> type \notin {"true", "false"}
               [] kind = "string" -> type # "string"
               [] kind = "strarr" -> type # "array"
               [] kind = "nested" -> type # "object"}
Unknown(ty, h, tree) ==
    {i \in 1..h[tree].len : KeyAt(h, tree, i) \notin Names(ty)}

\* the i-th smallest element of a set of indices
RECURSIVE Nth(_, _)
Nth(S, i) ==
    LET lo == CHOOSE x \in S : \A y \in S : x <= y
    IN IF i = 1 THEN lo ELSE Nth(S \ {lo}, i - 1)

\* the detach loop storing at index i instead of j: moved slots keep their
\* place instead of being packed to the front
MovedUnpacked(h, arr, U, cnt) ==
    [j \in 1..cnt |-> IF j \in U THEN h[arr].p[j] ELSE 0]
\* the slots of arr at the indices U, in order, padded with NULL to cnt
Moved(h, arr, U, cnt) ==
    [j \in 1..cnt |-> IF j <= Cardinality(U) THEN h[arr].p[Nth(U, j)] ELSE 0]
\* the detach loop without its "= NULL" statements: the source keeps its slots
NulledKept(h, arr, U, cnt) == h[arr].p
\* the slots of arr with those at the indices U set to NULL
Nulled(h, arr, U, cnt) ==
    [i \in 1..cnt |-> IF i \in U THEN 0 ELSE h[arr].p[i]]

\* the detach loop copying the slots to resi and leaving the source its own
DetachKeepingSource(ty, m, tree, resi) ==
    Bind(Unknown(ty, m.heap, tree), LAMBDA U :
      [m EXCEPT !.heap[m.heap[resi].keys].p =
                    Moved(m.heap, m.heap[tree].keys, U, m.heap[tree].len),
                !.heap[m.heap[resi].values].p =
                    Moved(m.heap, m.heap[tree].values, U, m.heap[tree].len),
                !.heap[resi].len = Cardinality(U)])

\* the detach loop: unknown slots move to resi in order, the source slots
\* are set to NULL
Detach(ty, m, tree, resi) ==
    Bind(Unknown(ty, m.heap, tree), LAMBDA U :
      [m EXCEPT !.heap[m.heap[resi].keys].p =
                    Moved(m.heap, m.heap[tree].keys, U, m.heap[tree].len),
                !.heap[m.heap[resi].values].p =
                    Moved(m.heap, m.heap[tree].values, U, m.heap[tree].len),
                !.heap[m.heap[tree].keys].p =
                    Nulled(m.heap, m.heap[tree].keys, U, m.heap[tree].len),
                !.heap[m.heap[tree].values].p =
                    Nulled(m.heap, m.heap[tree].values, U, m.heap[tree].len),
                !.heap[resi].len = Cardinality(U)])

\* the strict-mode warning without the test of ctx->errfile
WarnedWithoutSink(ty, m, tree, c) ==
    [m EXCEPT !.ub = @ \/ \E i \in 1..m.heap[tree].len :
                             m.heap[m.heap[tree].keys].p[i] = 0,
              !.warn = IF /\ OPT_PARSE_STRICT \in c.options
                          /\ Unknown(ty, m.heap, tree) # {}
                       THEN @ + 1 ELSE @]
\* the strcmp chain passing over a key slot that holds NULL
WarnedSkippingNull(ty, m, tree, c) ==
    [m EXCEPT !.warn = IF /\ OPT_PARSE_STRICT \in c.options
                          /\ Unknown(ty, m.heap, tree) # {}
                          /\ c.errfile # 0
                       THEN @ + 1 ELSE @]
\* the strcmp chain over the keys and the strict-mode warning
Warned(ty, m, tree, c) ==
    [m EXCEPT !.ub = @ \/ \E i \in 1..m.heap[tree].len :
                             m.heap[m.heap[tree].keys].p[i] = 0,
              !.warn = IF /\ OPT_PARSE_STRICT \in c.options
                          /\ Unknown(ty, m.heap, tree) # {}
                          /\ c.errfile # 0
                       THEN @ + 1 ELSE @]

\* the allocation of resi with its two slot arrays of cnt entries
AllocResidual(m, cnt) ==
    Bind(calloc(m, NodeCell("object", 0, 0, 0, 0)), LAMBDA r :
      IF r.a = 0 THEN [m |-> r.m, a |-> 0]
      ELSE Bind(calloc(r.m, ArrCell([i \in 1..cnt |-> 0])), LAMBDA k :
             Bind([k.m EXCEPT !.heap[r.a].keys = k.a], LAMBDA m1 :
               IF k.a = 0 THEN [m |-> yajl_tree_free(m1, r.a), a |-> 0]
               ELSE Bind(calloc(m1, ArrCell([i \in 1..cnt |-> 0])), LAMBDA v :
                      Bind([v.m EXCEPT !.heap[r.a].values = v.a], LAMBDA m2 :
                        IF v.a = 0 THEN [m |-> yajl_tree_free(m2, r.a), a |-> 0]
                        ELSE [m |-> m2, a |-> r.a])))))

\* the unknown-key section with strict mode refusing an unknown key
ResidualStrictRejects(ty, m, tree, ret, c) ==
    IF m.heap[tree].type # "object" THEN Ok(m)
    ELSE IF OPT_PARSE_STRICT \in c.options /\ Unknown(ty, m.heap, tree) # {}
    THEN Fail(Warned(ty, m, tree, c), 0)
    ELSE IF OPT_PARSE_FULLKEY \notin c.options THEN Ok(Warned(ty, m, tree, c))
    ELSE Bind(AllocResidual(m, m.heap[tree].len), LAMBDA r :
           IF r.a = 0 THEN Fail(r.m, 0)
           ELSE Ok([Detach(ty, Warned(ty, r.m, tree, c), tree, r.a)
                      EXCEPT !.heap[ret].residual = r.a]))

\* the unknown-key section that ends every make_*
Residual(ty, m, tree, ret, c) ==
    IF m.heap[tree].type # "object" THEN Ok(m)
    ELSE IF OPT_PARSE_FULLKEY \notin c.options THEN Ok(Warned(ty, m, tree, c))
    ELSE Bind(AllocResidual(m, m.heap[tree].len), LAMBDA r :
           IF r.a = 0 THEN Fail(r.m, 0)
           ELSE Ok([Detach(ty, Warned(ty, r.m, tree, c), tree, r.a)
                      EXCEPT !.heap[ret].residual = r.a]))

\* "Required field '%s' not present", or the fallback when asprintf fails
RequiredError(m, name) ==
    Bind(calloc(m, StrCell(<<"Required field not present", name>>)), LAMBDA x :
      IF x.a # 0 THEN x
      ELSE calloc(x.m, StrCell(<<"error allocating memory">>)))

\* make_* without the block that checks the required members
MissingRequiredNone(ty, h, ret) == ""

\* the first required field, in schema order, that is still NULL
MissingRequired(ty, h, ret) ==
    LET S == {k \in 1..Len(Schema(ty)) :
                Schema(ty)[k].required /\ h[ret].f[Schema(ty)[k].name].p = 0}
    IN IF S = {} THEN "" ELSE Schema(ty)[Nth(S, 1)].name

RECURSIVE make_record(_, _, _, _), DecodeFields(_, _, _, _, _, _)
RECURSIVE DecodeNested(_, _, _, _, _), MakeBody(_, _, _, _, _)
\* nested object field: the child's make_*, then the check of its result
DecodeNested(d, m, tree, ret, c) ==
    Bind(make_record(d.nested, m, get_val(m.heap, tree, d.name, "object"), c),
         LAMBDA x :
      [m |-> [x.m EXCEPT !.heap[ret].f[d.name].p = x.ret],
       ok |-> ~(x.ret = 0 /\ x.err # 0), err |-> x.err])

\* the field blocks of make_*, in schema order
DecodeFields(ty, m, tree, ret, c, k) ==
    IF k > Len(Schema(ty)) THEN Ok(m)
    ELSE Bind(LET d == Schema(ty)[k] IN
              CASE d.kind = "bool" -> DecodeBool(m, tree, ret, d.name)
                [] d.kind = "string" -> DecodeString(m, tree, ret, d.name)
                [] d.kind = "strarr" -> DecodeStrArr(m, tree, ret, d.name)
                [] d.kind = "nested" -> DecodeNested(d, m, tree, ret, c),
              LAMBDA x :
           IF x.ok THEN DecodeFields(ty, x.m, tree, ret, c, k + 1) ELSE x)

\* the body of make_* refusing a tree that is no object
MakeBodyObjectsOnly(ty, m, tree, ret, c) ==
    IF m.heap[tree].type # "object" THEN Fail(m, 0)
    ELSE Bind(DecodeFields(ty, m, tree, ret, c, 1), LAMBDA d :
           IF ~d.ok THEN d
           ELSE Bind(MissingRequired(ty, d.m.heap, ret), LAMBDA miss :
                  IF miss # ""
                  THEN Bind(RequiredError(d.m, miss), LAMBDA e : Fail(e.m, e.a))
                  ELSE Residual(ty, d.m, tree, ret, c)))

\* the body of make_* after ret is allocated: the fields, the required
\* check, the unknown-key section
MakeBody(ty, m, tree, ret, c) ==
    Bind(DecodeFields(ty, m, tree, ret, c, 1), LAMBDA d :
      IF ~d.ok THEN d
      ELSE Bind(MissingRequired(ty, d.m.heap, ret), LAMBDA miss :
             IF miss # ""
             THEN Bind(RequiredError(d.m, miss), LAMBDA e : Fail(e.m, e.a))
             ELSE Residual(ty, d.m, tree, ret, c)))

\* make_* going on past "if (tree == NULL)" to hand out an empty record
make_record_AbsentAsEmpty(ty, m, tree, c) ==
    Bind(calloc(m, RecCell(ty)), LAMBDA r :
      IF r.a = 0 \/ tree = 0 THEN [m |-> r.m, ret |-> r.a, err |-> 0]
      ELSE Bind(MakeBody(ty, r.m, tree, r.a, c), LAMBDA x :
             IF x.ok THEN [m |-> x.m, ret |-> r.a, err |-> 0]
             ELSE [m |-> free_record(ty, x.m, r.a), ret |-> 0, err |-> x.err]))

\* make_* (tree, ctx, err): the result is [m, ret, err]; on every
\* "return NULL" the cleanup attribute releases the partial record
make_record(ty, m, tree, c) ==
    IF tree = 0 THEN [m |-> m, ret |-> 0, err |-> 0]
    ELSE Bind(calloc(m, RecCell(ty)), LAMBDA r :
           IF r.a = 0 THEN [m |-> r.m, ret |-> 0, err |-> 0]
           ELSE Bind(MakeBody(ty, r.m, tree, r.a, c), LAMBDA x :
                  IF x.ok THEN [m |-> x.m, ret |-> r.a, err |-> 0]
                  ELSE [m |-> free_record(ty, x.m, r.a), ret |-> 0, err |-> x.err]))

(***************************************************************************)
(* clone_*: the generated copy functions.  Steps return [m, ok].           *)
(***************************************************************************)
RECURSIVE CloneElems(_, _, _, _, _)
CloneElems(m, from, to, len, i) ==
    IF i > len THEN Ok(m)
    ELSE LET e == m.heap[from].p[i] IN
         IF e = 0 THEN CloneElems(m, from, to, len, i + 1)
         ELSE Bind(strdup(m, m.heap[e].s), LAMBDA x :
                IF x.a = 0 THEN Fail(x.m, 0)
                ELSE CloneElems([x.m EXCEPT !.heap[to].p[i] = x.a],
                                from, to, len, i + 1))

\* clone_* copying the value of a boolean member and not its _present flag
CloneBoolWithoutFlag(m, src, ret, name) ==
    Ok([m EXCEPT !.heap[ret].f[name].b = m.heap[src].f[name].b])

CloneBool(m, src, ret, name) ==
    Ok([m EXCEPT !.heap[ret].f[name].b = m.heap[src].f[name].b,
                 !.heap[ret].f[name].present = m.heap[src].f[name].present])

\* clone_* copying the pointer of a string member instead of its text
CloneStringShared(m, src, ret, name) ==
    Ok([m EXCEPT !.heap[ret].f[name].p = m.heap[src].f[name].p])

CloneString(m, src, ret, name) ==
    LET p == m.heap[src].f[name].p IN
    IF p = 0 THEN Ok(m)
    ELSE Bind(strdup(m, m.heap[p].s), LAMBDA x :
           [m |-> [x.m EXCEPT !.heap[ret].f[name].p = x.a], ok |-> x.a # 0, err |-> 0])

\* clone_* copying the pointer and the length of an array member instead of
\* the array
CloneStrArrShared(m, src, ret, name) ==
    Ok([m EXCEPT !.heap[ret].f[name].p = m.heap[src].f[name].p,
                 !.heap[ret].f[name].len = m.heap[src].f[name].len])

CloneStrArr(m, src, ret, name) ==
    LET s == m.heap[src].f[name] IN
    IF s.p = 0 THEN Ok(m)
    ELSE Bind(calloc(m, ArrCell([i \in 1..(s.len + 1) |-> 0])), LAMBDA x :
           Bind([x.m EXCEPT !.heap[ret].f[name].len = s.len,
                            !.heap[ret].f[name].p = x.a], LAMBDA m1 :
             IF x.a = 0 THEN Fail(m1, 0)
             ELSE CloneElems(m1, s.p, x.a, s.len, 1)))

RECURSIVE clone_record(_, _, _), CloneFields(_, _, _, _, _), CloneNested(_, _, _, _)
\* nested object member: the child's clone_*, when the member is set
CloneNested(d, m, src, ret) ==
    IF m.heap[src].f[d.name].p = 0 THEN Ok(m)
    ELSE Bind(clone_record(d.nested, m, m.heap[src].f[d.name].p), LAMBDA x :
           [m |-> [x.m EXCEPT !.heap[ret].f[d.name].p = x.ret],
            ok |-> x.ret # 0, err |-> 0])

\* the member blocks of clone_*, in schema order
CloneFields(ty, m, src, ret, k) ==
    IF k > Len(Schema(ty)) THEN Ok(m)
    ELSE Bind(LET d == Schema(ty)[k] IN
              CASE d.kind = "bool" -> CloneBool(m, src, ret, d.name)
                [] d.kind = "string" -> CloneString(m, src, ret, d.name)
                [] d.kind = "strarr" -> CloneStrArr(m, src, ret, d.name)
                [] d.kind = "nested" -> CloneNested(d, m, src, ret),
              LAMBDA x :
           IF x.ok THEN CloneFields(ty, x.m, src, ret, k + 1) ELSE x)

\* clone_* without the cleanup of the partial copy on "return NULL"
clone_record_NoCleanup(ty, m, src) ==
    Bind(calloc(m, RecCell(ty)), LAMBDA r :
      IF r.a = 0 THEN [m |-> r.m, ret |-> 0]
      ELSE Bind(CloneFields(ty, r.m, src, r.a, 1), LAMBDA x :
             IF ~x.ok THEN [m |-> x.m, ret |-> 0]
             ELSE [m |-> x.m, ret |-> r.a]))

\* clone_* (src): the result is [m, ret]; _residual is not among the copied
\* members, so the copy's stays as calloc left it
clone_record(ty, m, src) ==
    Bind(calloc(m, RecCell(ty)), LAMBDA r :
      IF r.a = 0 THEN [m |-> r.m, ret |-> 0]
      ELSE Bind(CloneFields(ty, r.m, src, r.a, 1), LAMBDA x :
             IF ~x.ok THEN [m |-> free_record(ty, x.m, r.a), ret |-> 0]
             ELSE [m |-> x.m, ret |-> r.a]))

(***************************************************************************)
(* The emitter (yajl_gen).  e = [calls, stat, failAt, cfg, ub]: every call *)
(* issued is logged; the failAt-th call returns a non-ok status.           *)
(***************************************************************************)
Ev(op, s, b) == [op |-> op, s |-> s, b |-> b]
Emitter(failAt) == [calls |-> <<>>, stat |-> "ok", failAt |-> failAt, cfg |-> <<>>, ub |-> FALSE]
Call(e, ev) ==
    [e EXCEPT !.calls = Append(@, ev),
              !.stat = IF Len(e.calls) + 1 = e.failAt THEN "err" ELSE "ok"]
yajl_gen_map_open(e) == Call(e, Ev("map_open", "", FALSE))
yajl_gen_map_close(e) == Call(e, Ev("map_close", "", FALSE))
yajl_gen_array_open(e) == Call(e, Ev("array_open", "", FALSE))
yajl_gen_array_close(e) == Call(e, Ev("array_close", "", FALSE))
yajl_gen_string(e, s) == Call(e, Ev("string", s, FALSE))
yajl_gen_number(e, s) == Call(e, Ev("number", s, FALSE))
yajl_gen_bool(e, b) == Call(e, Ev("bool", "", b))
yajl_gen_null(e) == Call(e, Ev("null", "", FALSE))
\* yajl_gen_config (g, yajl_gen_beautify, on): logged with its position
yajl_gen_config(e, on) == [e EXCEPT !.cfg = Append(@, [at |-> Len(e.calls), on |-> on])]

\* the check after every emitter call: a non-ok status is returned at once
\* (GEN_SET_ERROR_AND_RETURN), otherwise the function goes on with K
Then(e, K(_)) == IF e.stat # "ok" THEN e ELSE K(e)

\* gen_yajl_val / gen_yajl_object_residual: a stored tree emitted verbatim
RECURSIVE gen_yajl_val(_, _, _), GenTreeVals(_, _, _, _), GenTreePairs(_, _, _, _)
GenTreeVals(e, h, v, i) ==
    IF i > h[v].len THEN e
    ELSE Then(gen_yajl_val(e, h, h[h[v].values].p[i]), LAMBDA e1 :
           GenTreeVals(e1, h, v, i + 1))
GenTreePairs(e, h, v, i) ==
    IF i > h[v].len THEN e
    ELSE IF h[h[v].keys].p[i] = 0 THEN GenTreePairs(e, h, v, i + 1)
    ELSE Then(yajl_gen_string(e, h[h[h[v].keys].p[i]].s), LAMBDA e1 :
           Then(gen_yajl_val(e1, h, h[h[v].values].p[i]), LAMBDA e2 :
             GenTreePairs(e2, h, v, i + 1)))
gen_yajl_val(e, h, v) ==
    LET n == h[v] IN
    CASE n.type = "string" -> yajl_gen_string(e, h[n.str].s)
      [] n.type = "number" -> yajl_gen_number(e, h[n.str].s)
      [] n.type = "true" -> yajl_gen_bool(e, TRUE)
      [] n.type = "false" -> yajl_gen_bool(e, FALSE)
      [] n.type = "null" -> yajl_gen_null(e)
      [] n.type = "array" ->
           Then(yajl_gen_array_open(e), LAMBDA e1 :
             Then(GenTreeVals(e1, h, v, 1), LAMBDA e2 : yajl_gen_array_close(e2)))
      [] n.type = "object" ->
           Then(yajl_gen_map_open(e), LAMBDA e1 :
             Then(GenTreePairs(e1, h, v, 1), LAMBDA e2 : yajl_gen_map_close(e2)))
gen_yajl_object_residual(e, h, resi) == GenTreePairs(e, h, resi, 1)

(***************************************************************************)
(* gen_*: the generated encode functions.  Each returns the emitter; a     *)
(* non-ok e.stat is the status returned through GEN_SET_ERROR_AND_RETURN.  *)
(***************************************************************************)
Emits(c, cond) == OPT_GEN_KEY_VALUE \in c.options \/ cond

\* GenBool emitting the initial value of b instead of the stored one
GenBoolInitial(e, h, ptr, name, c) ==
    IF ~Emits(c, ptr # 0 /\ h[ptr].f[name].present) THEN e
    ELSE Then(yajl_gen_string(e, name), LAMBDA e1 : yajl_gen_bool(e1, FALSE))

GenBool(e, h, ptr, name, c) ==
    IF ~Emits(c, ptr # 0 /\ h[ptr].f[name].present) THEN e
    ELSE Then(yajl_gen_string(e, name), LAMBDA e1 :
           yajl_gen_bool(e1, IF ptr # 0 /\ h[ptr].f[name].b
                             THEN h[ptr].f[name].b ELSE FALSE))

\* the string block without the OPT_GEN_KEY_VALUE half of its condition
GenStringPresentOnly(e, h, ptr, name, c) ==
    IF ~(ptr # 0 /\ h[ptr].f[name].p # 0) THEN e
    ELSE Then(yajl_gen_string(e, name), LAMBDA e1 :
           yajl_gen_string(e1, h[h[ptr].f[name].p].s))

GenString(e, h, ptr, name, c) ==
    IF ~Emits(c, ptr # 0 /\ h[ptr].f[name].p # 0) THEN e
    ELSE Then(yajl_gen_string(e, name), LAMBDA e1 :
           yajl_gen_string(e1, IF ptr # 0 /\ h[ptr].f[name].p # 0
                               THEN h[h[ptr].f[name].p].s ELSE ""))

\* the element loop; strlen of a NULL element is undefined
RECURSIVE GenElems(_, _, _, _, _)
GenElems(e, h, arr, len, i) ==
    IF i > len THEN e
    ELSE Then(IF h[arr].p[i] = 0 THEN [yajl_gen_string(e, "") EXCEPT !.ub = TRUE]
              ELSE yajl_gen_string(e, h[h[arr].p[i]].s), LAMBDA e1 :
           GenElems(e1, h, arr, len, i + 1))

\* the array block closing the array only when it has written an element
GenArrayUnclosed(e, h, arr, len, plain) ==
    Then(yajl_gen_array_open(IF plain THEN yajl_gen_config(e, FALSE) ELSE e), LAMBDA e2 :
      Then(GenElems(e2, h, arr, len, 1), LAMBDA e3 :
        IF len = 0 THEN (IF plain THEN yajl_gen_config(e3, TRUE) ELSE e3)
        ELSE Then(yajl_gen_array_close(e3), LAMBDA e4 : e4)))

\* the array block of one member, len being 0 when the member is NULL
GenArray(e, h, arr, len, plain) ==
    Then(yajl_gen_array_open(IF plain THEN yajl_gen_config(e, FALSE) ELSE e), LAMBDA e2 :
      Then(GenElems(e2, h, arr, len, 1), LAMBDA e3 :
        Then(yajl_gen_array_close(e3), LAMBDA e4 :
          IF plain THEN yajl_gen_config(e4, TRUE) ELSE e4)))

\* the array block with the option test of its beautify switch the other
\* way round
GenStrArrCollapseWhenSet(e, h, ptr, name, c) ==
    IF ~Emits(c, ptr # 0 /\ h[ptr].f[name].p # 0) THEN e
    ELSE Then(yajl_gen_string(e, name), LAMBDA e1 :
           Bind(IF ptr # 0 /\ h[ptr].f[name].p # 0 THEN h[ptr].f[name].len ELSE 0,
                LAMBDA len :
             GenArray(e1, h, IF len = 0 THEN 0 ELSE h[ptr].f[name].p, len,
                      len = 0 /\ OPT_GEN_SIMPLIFY \in c.options)))

GenStrArr(e, h, ptr, name, c) ==
    IF ~Emits(c, ptr # 0 /\ h[ptr].f[name].p # 0) THEN e
    ELSE Then(yajl_gen_string(e, name), LAMBDA e1 :
           Bind(IF ptr # 0 /\ h[ptr].f[name].p # 0 THEN h[ptr].f[name].len ELSE 0,
                LAMBDA len :
             GenArray(e1, h, IF len = 0 THEN 0 ELSE h[ptr].f[name].p, len,
                      len = 0 /\ OPT_GEN_SIMPLIFY \notin c.options)))

RECURSIVE gen_record(_, _, _, _, _), GenFields(_, _, _, _, _, _), GenNested(_, _, _, _, _)
\* nested object member: the key, then the child's gen_*
GenNested(d, e, h, ptr, c) ==
    IF ~Emits(c, ptr # 0 /\ h[ptr].f[d.name].p # 0) THEN e
    ELSE Then(yajl_gen_string(e, d.name), LAMBDA e2 :
           gen_record(d.nested, e2, h, IF ptr # 0 THEN h[ptr].f[d.name].p ELSE 0, c))

\* the member blocks without the status check after a member
GenFieldsUnchecked(ty, e, h, ptr, c, k) ==
    IF k > Len(Schema(ty)) THEN e
    ELSE Bind(LET d == Schema(ty)[k] IN
              CASE d.kind = "bool" -> GenBool(e, h, ptr, d.name, c)
                [] d.kind = "string" -> GenString(e, h, ptr, d.name, c)
                [] d.kind = "strarr" -> GenStrArr(e, h, ptr, d.name, c)
                [] d.kind = "nested" -> GenNested(d, e, h, ptr, c),
              LAMBDA e1 : GenFields(ty, e1, h, ptr, c, k + 1))

\* the member blocks of gen_*, in schema order
GenFields(ty, e, h, ptr, c, k) ==
    IF k > Len(Schema(ty)) THEN e
    ELSE Then(LET d == Schema(ty)[k] IN
              CASE d.kind = "bool" -> GenBool(e, h, ptr, d.name, c)
                [] d.kind = "string" -> GenString(e, h, ptr, d.name, c)
                [] d.kind = "strarr" -> GenStrArr(e, h, ptr, d.name, c)
                [] d.kind = "nested" -> GenNested(d, e, h, ptr, c),
              LAMBDA e1 : GenFields(ty, e1, h, ptr, c, k + 1))

\* gen_* with the residual block placed before the member blocks
gen_record_ResidualFirst(ty, e, h, ptr, c) ==
    Then(yajl_gen_map_open(e), LAMBDA e1 :
      Then(IF ptr # 0 /\ h[ptr].residual # 0
           THEN gen_yajl_object_residual(e1, h, h[ptr].residual) ELSE e1,
           LAMBDA e2 :
        Then(GenFields(ty, e2, h, ptr, c, 1), LAMBDA e3 : yajl_gen_map_close(e3))))

\* gen_* (g, ptr, ctx, err)
gen_record(ty, e, h, ptr, c) ==
    Then(yajl_gen_map_open(e), LAMBDA e1 :
      Then(GenFields(ty, e1, h, ptr, c, 1), LAMBDA e2 :
        Then(IF ptr # 0 /\ h[ptr].residual # 0
             THEN gen_yajl_object_residual(e2, h, h[ptr].residual) ELSE e2,
             LAMBDA e3 : yajl_gen_map_close(e3))))

(***************************************************************************)
(* What a caller can observe of a record: its fields by value, its         *)
(* residual as a JSON value, and whether every cell it reaches is live.    *)
(***************************************************************************)
Live(h, a) == a # 0 /\ h[a].frees = 0

NoView == [absent |-> TRUE, f |-> <<>>, residual |-> JNULL]
FieldView(present, b, s, elems, sub) ==
    [present |-> present, b |-> b, s |-> s, elems |-> elems, sub |-> sub]

\* the fields in schema order: f[k] is the view of Schema(ty)[k]
RECURSIVE RecView(_, _, _), FieldViews(_, _, _, _), ElemViews(_, _, _, _)
ElemViews(h, arr, len, i) ==
    IF i > len THEN <<>>
    ELSE <<IF h[arr].p[i] = 0 THEN NullKey ELSE h[h[arr].p[i]].s>>
           \o ElemViews(h, arr, len, i + 1)
FieldViews(h, ty, a, k) ==
    IF k > Len(Schema(ty)) THEN <<>>
    ELSE
      LET d == Schema(ty)[k]
          sl == h[a].f[d.name]
          v == CASE d.kind = "bool" -> FieldView(sl.present, sl.b, "", <<>>, NoView)
                 [] d.kind = "string" ->
                      IF sl.p = 0 THEN FieldView(FALSE, FALSE, "", <<>>, NoView)
                      ELSE FieldView(TRUE, FALSE, h[sl.p].s, <<>>, NoView)
                 [] d.kind = "strarr" ->
                      IF sl.p = 0 THEN FieldView(FALSE, FALSE, "", <<>>, NoView)
                      ELSE FieldView(TRUE, FALSE, "", ElemViews(h, sl.p, sl.len, 1), NoView)
                 [] d.kind = "nested" ->
                      FieldView(sl.p # 0, FALSE, "", <<>>, RecView(h, d.nested, sl.p))
      IN <<v>> \o FieldViews(h, ty, a, k + 1)
RecView(h, ty, a) ==
    IF a = 0 THEN NoView
    ELSE [absent |-> FALSE, f |-> FieldViews(h, ty, a, 1),
          residual |-> ReadVal(h, h[a].residual)]

\* position of wire name n in the schema of ty
Idx(ty, n) == CHOOSE k \in 1..Len(Schema(ty)) : Schema(ty)[k].name = n

\* every address a cell points at, with multiplicity (NULLs dropped)
Targets(cell) ==
    LET nz(q) == SelectSeq(q, LAMBDA x : x # 0) IN
    CASE cell.kind = "arr" -> nz(cell.p)
      [] cell.kind = "node" -> nz(<<cell.str, cell.keys, cell.values>>)
      [] cell.kind = "rec" ->
           nz(<<cell.residual>>) \o
           nz([k \in 1..Len(Schema(cell.ty)) |-> cell.f[Schema(cell.ty)[k].name].p])
      [] OTHER -> <<>>

\* how many pointers held in live cells refer to address a
Refs(h, a) ==
    LET cnt[i \in 0..Len(h)] ==
          IF i = 0 THEN 0
          ELSE cnt[i - 1] +
               (IF h[i].frees = 0
                THEN Len(SelectSeq(Targets(h[i]), LAMBDA x : x = a)) ELSE 0)
    IN cnt[Len(h)]

\* the cells reachable from address a (a included), NULL giving none
RECURSIVE Reach(_, _)
Reach(h, a) ==
    IF a = 0 THEN {}
    ELSE {a} \cup UNION {Reach(h, Targets(h[a])[i]) : i \in 1..Len(Targets(h[a]))}

(***************************************************************************)
(* Inputs: for each record type a few key/value entries (known keys with   *)
(* values of the right and of a wrong kind, unknown keys with scalar and   *)
(* structured values); an input object is any sequence of at most MaxKeys  *)
(* entries with distinct keys.                                             *)
(***************************************************************************)
Types == {"namespace_reference", "cgroup", "seccomp", "mount_extensions", "features_linux"}

Entries(ty) ==
    CASE ty = "namespace_reference" ->
           {<<"type", JStr("pid")>>, <<"type", JNum("5")>>, <<"path", JStr("/p")>>,
            <<"path", JTrue>>, <<"unknownKey", JArr(<<JStr("x"), JNull>>)>>}
      [] ty = "cgroup" ->
           {<<"v1", JTrue>>, <<"rdma", JFalse>>, <<"v1", JStr("yes")>>,
            <<"unknownKey", JStr("x")>>, <<"zz", JNum("1")>>}
      [] ty = "seccomp" ->
           {<<"actions", JArr(<<JStr("a"), JStr("b")>>)>>, <<"actions", JArr(<<>>)>>,
            <<"archs", JArr(<<JNum("1"), JStr("z")>>)>>, <<"actions", JStr("x")>>,
            <<"unknownKey", JTrue>>}
      [] ty = "mount_extensions" ->
           {<<"idmap", JObj(<<"enabled", "u">>, <<JTrue, JStr("x")>>)>>,
            <<"idmap", JObj(<<>>, <<>>)>>, <<"idmap", JNum("5")>>,
            <<"unknownKey", JStr("x")>>}
      [] ty = "features_linux" ->
           {<<"namespaces", JArr(<<JStr("pid")>>)>>,
            <<"cgroup", JObj(<<"v1", "unknownKey">>, <<JTrue, JStr("x")>>)>>,
            <<"mountExtensions",
              JObj(<<"w", "idmap">>, <<JStr("y"), JObj(<<"enabled">>, <<JFalse>>)>>)>>,
            <<"unknownKey", JStr("x")>>}

RECURSIVE EntrySeqs(_, _)
EntrySeqs(ty, n) ==
    IF n = 0 THEN {<<>>}
    ELSE LET prev == EntrySeqs(ty, n - 1) IN
         prev \cup {Append(q, e) : q \in {x \in prev : Len(x) = n - 1},
                                   e \in Entries(ty)}

DistinctKeys(q) == \A i, j \in 1..Len(q) : i # j => q[i][1] # q[j][1]
ObjOf(q) == JObj([i \in 1..Len(q) |-> q[i][1]], [i \in 1..Len(q) |-> q[i][2]])

\* the trees handed to make_*: objects, and two values that are no object
Docs(ty) ==
    {ObjOf(q) : q \in {x \in EntrySeqs(ty, MaxKeys) : DistinctKeys(x)}}
      \cup {JStr("x"), JArr(<<JTrue>>)}

Ctx(options, errfile) == [options |-> options, errfile |-> errfile]
ParseCtxs == {Ctx(o, f) : o \in SUBSET {OPT_PARSE_STRICT, OPT_PARSE_FULLKEY}, f \in {0, 1}}
GenCtxs == {Ctx(o, 0) : o \in SUBSET {OPT_GEN_KEY_VALUE, OPT_GEN_SIMPLIFY}}

(***************************************************************************)
(* The state machine: one input tree, the record decoded from it, one      *)
(* clone of that record, and the calls a program makes on them.            *)
(***************************************************************************)
NoCtx == Ctx({}, 0)
Last(op, which, c, failAt, warn, e) ==
    [op |-> op, which |-> which, ctx |-> c, failAt |-> failAt, warn |-> warn, e |-> e]
Init ==
    /\ heap = <<>>
    /\ doc = [state |-> "none", ty |-> "", tree |-> 0, val |-> JNULL]
    /\ rec = [state |-> "none", a |-> 0, err |-> 0]
    /\ cln = [state |-> "none", a |-> 0]
    /\ last = Last("init", "", NoCtx, 0, 0, Emitter(0))
    /\ hist = [fullkey |-> FALSE, failAt |-> 0, recView |-> NoView,
               clnView |-> NoView, src |-> JNULL, again |-> FALSE,
               redecoded |-> FALSE]
    /\ ub = FALSE

\* the external parser produced a tree for a document of type ty
Parse(ty, v) ==
    /\ ~ub /\ doc.state = "none"
    /\ LET b == BuildVal(heap, v) IN
       /\ heap' = b.h
       /\ doc' = [state |-> "parsed", ty |-> ty, tree |-> b.a, val |-> v]
    /\ last' = Last("parse", "", NoCtx, 0, 0, Emitter(0))
    /\ UNCHANGED <<rec, cln, hist, ub>>

\* the caller did not find the key: make_* will be handed NULL
ParseAbsent(ty) ==
    /\ ~ub /\ doc.state = "none"
    /\ doc' = [state |-> "parsed", ty |-> ty, tree |-> 0, val |-> JNULL]
    /\ last' = Last("parse", "", NoCtx, 0, 0, Emitter(0))
    /\ UNCHANGED <<heap, rec, cln, hist, ub>>

\* the caller's state once make_* has returned r; an injected failure
\* counts only when the call reached its failAt-th allocation
Decoded(c, failAt, r) ==
    /\ failAt # 0 => r.m.nalloc >= failAt
    /\ heap' = r.m.heap
    /\ rec' = [state |-> "made", a |-> r.ret, err |-> r.err]
    /\ last' = Last("make", "rec", c, failAt, r.m.warn, Emitter(0))
    /\ hist' = [hist EXCEPT !.fullkey = OPT_PARSE_FULLKEY \in c.options,
                            !.failAt = failAt,
                            !.recView = RecView(r.m.heap, doc.ty, r.ret),
                            !.src = ReadVal(r.m.heap, doc.tree)]
    /\ ub' = (ub \/ r.m.ub)

\* ret = make_* (tree, ctx, &err), the failAt-th allocation failing
Decode(c, failAt) ==
    /\ ~ub /\ doc.state = "parsed" /\ rec.state = "none"
    /\ Decoded(c, failAt, make_record(doc.ty, Machine(heap, failAt), doc.tree, c))
    /\ UNCHANGED <<doc, cln>>

\* the caller's state once clone_* has returned r
Cloned(failAt, r) ==
    /\ failAt # 0 => r.m.nalloc >= failAt
    /\ heap' = r.m.heap
    /\ cln' = [state |-> "made", a |-> r.ret]
    /\ last' = Last("clone", "cln", NoCtx, failAt, 0, Emitter(0))
    /\ hist' = [hist EXCEPT !.clnView = RecView(r.m.heap, doc.ty, r.ret)]
    /\ ub' = (ub \/ r.m.ub)

\* copy = clone_* (ret), the failAt-th allocation failing
Clone(failAt) ==
    /\ ~ub /\ rec.state = "made" /\ rec.a # 0 /\ cln.state = "none"
    /\ Cloned(failAt, clone_record(doc.ty, Machine(heap, failAt), rec.a))
    /\ UNCHANGED <<doc, rec>>

Ptr(which) == IF which = "rec" THEN rec ELSE cln

\* the caller's state once gen_* has returned with emitter e
Encoded(which, c, e) ==
    /\ last' = Last("gen", which, c, 0, 0, e)
    /\ ub' = (ub \/ e.ub)

\* gen_* (g, ptr, ctx, &err) on the record or on the clone, with a fresh
\* emitter; it reads the record only, so an encode that follows an encode
\* gives the state the second one alone gives
Encode(which, c) ==
    /\ ~ub /\ Ptr(which).state = "made" /\ last.op # "gen"
    /\ Encoded(which, c, gen_record(doc.ty, Emitter(0), heap, Ptr(which).a, c))
    /\ UNCHANGED <<heap, doc, rec, cln, hist>>

\* free_* (ptr): the caller's pointer keeps its value
Release(which) ==
    /\ ~ub /\ Ptr(which).state = "made"
    /\ heap' = free_record(doc.ty, Machine(heap, 0), Ptr(which).a).heap
    /\ IF which = "rec" THEN rec' = [rec EXCEPT !.state = "freed"] /\ cln' = cln
       ELSE cln' = [cln EXCEPT !.state = "freed"] /\ rec' = rec
    /\ last' = Last("free", which, NoCtx, 0, 0, Emitter(0))
    /\ UNCHANGED <<doc, hist, ub>>

\* free_* (ptr) once more through the stale pointer: the members are read
\* from freed memory and ptr is handed to free again
ReleaseAgain(which) ==
    /\ ~ub /\ Ptr(which).state = "freed" /\ Ptr(which).a # 0
    /\ heap' = free_record(doc.ty, Machine(heap, 0), Ptr(which).a).heap
    /\ IF which = "rec" THEN rec' = [rec EXCEPT !.state = "freed2"] /\ cln' = cln
       ELSE cln' = [cln EXCEPT !.state = "freed2"] /\ rec' = rec
    /\ last' = Last("free_again", which, NoCtx, 0, 0, Emitter(0))
    /\ hist' = [hist EXCEPT !.again = TRUE]
    /\ ub' = TRUE
    /\ UNCHANGED doc

\* yajl_tree_free (tree) by the owner of the source tree
FreeTree ==
    /\ ~ub /\ doc.state = "parsed" /\ rec.state # "none"
    /\ heap' = yajl_tree_free(Machine(heap, 0), doc.tree).heap
    /\ doc' = [doc EXCEPT !.state = "freed"]
    /\ last' = Last("tree_free", "", NoCtx, 0, 0, Emitter(0))
    /\ UNCHANGED <<rec, cln, hist, ub>>

Next ==
    \/ \E ty \in Types : \E v \in Docs(ty) : Parse(ty, v)
    \/ \E ty \in Types : ParseAbsent(ty)
    \/ \E c \in ParseCtxs : \E k \in 0..MaxFail : Decode(c, k)
    \/ \E k \in 0..MaxFail : Clone(k)
    \/ \E w \in {"rec", "cln"} : \E c \in GenCtxs : Encode(w, c)
    \/ \E w \in {"rec", "cln"} : Release(w)
    \/ \E w \in {"rec", "cln"} : ReleaseAgain(w)
    \/ FreeTree

Spec == Init /\ [][Next]_vars

(***************************************************************************)
(* Encoding into an emitter that fails: the same tree, decoded without     *)
(* allocation failure, is encoded with the k-th emitter call returning a   *)
(* status other than ok.                                                   *)
(***************************************************************************)
\* the caller's state once gen_* has returned with emitter e, the failure
\* counting only when the k-th call was made
EncodedFailing(which, c, k, e) ==
    /\ Len(e.calls) >= k
    /\ Encoded(which, c, e)

\* gen_* (g, ptr, ctx, &err) with an emitter whose k-th call fails
EncodeFailing(which, c, k) ==
    /\ ~ub /\ Ptr(which).state = "made" /\ last.op # "gen"
    /\ EncodedFailing(which, c, k,
                      gen_record(doc.ty, Emitter(k), heap, Ptr(which).a, c))
    /\ UNCHANGED <<heap, doc, rec, cln, hist>>

NextEmit ==
    \/ \E ty \in Types : \E v \in Docs(ty) : Parse(ty, v)
    \/ \E ty \in Types : ParseAbsent(ty)
    \/ \E c \in ParseCtxs : Decode(c, 0)
    \/ \E c \in GenCtxs : \E k \in 1..MaxEmit : EncodeFailing("rec", c, k)

SpecEmit == Init /\ [][NextEmit]_vars

(***************************************************************************)
(* Decoding a tree a second time: the record of the first decode has been  *)
(* released (or the first decode returned none) and the caller hands the   *)
(* same tree to make_* once more.                                          *)
(***************************************************************************)
\* the caller's state once the second make_* has returned r; hist keeps what
\* the first decode observed (hist.src is the tree the second one was given)
DecodedAgain(c, failAt, r) ==
    /\ failAt # 0 => r.m.nalloc >= failAt
    /\ heap' = r.m.heap
    /\ rec' = [state |-> "made", a |-> r.ret, err |-> r.err]
    /\ last' = Last("make_again", "rec", c, failAt, r.m.warn, Emitter(0))
    /\ hist' = [hist EXCEPT !.redecoded = TRUE]
    /\ ub' = (ub \/ r.m.ub)

\* ret = make_* (tree, ctx, &err) on the tree of the first decode
DecodeAgain(c, failAt) ==
    /\ ~ub /\ doc.state = "parsed" /\ doc.tree # 0 /\ ~hist.redecoded
    /\ rec.state = "freed" \/ (rec.state = "made" /\ rec.a = 0)
    /\ DecodedAgain(c, failAt, make_record(doc.ty, Machine(heap, failAt), doc.tree, c))
    /\ UNCHANGED <<doc, cln>>

NextAgain ==
    \/ \E ty \in Types : \E v \in Docs(ty) : Parse(ty, v)
    \/ \E ty \in Types : ParseAbsent(ty)
    \/ \E c \in ParseCtxs : \E k \in 0..MaxFail : Decode(c, k)
    \/ Release("rec")
    \/ \E c \in ParseCtxs : \E k \in 0..MaxFail : DecodeAgain(c, k)

SpecAgain == Init /\ [][NextAgain]_vars

(***************************************************************************)
(* Decoding with an allocation failure anywhere in the call: the failure   *)
(* is injected as far as the MaxDeep-th allocation, which reaches the      *)
(* residual of a parent whose nested record has been decoded.              *)
(***************************************************************************)
NextUnwind ==
    \/ \E ty \in Types : \E v \in Docs(ty) : Parse(ty, v)
    \/ \E ty \in Types : ParseAbsent(ty)
    \/ \E c \in ParseCtxs : \E k \in 0..MaxDeep : Decode(c, k)

SpecUnwind == Init /\ [][NextUnwind]_vars

(***************************************************************************)
(* What the claims speak about, said over the abstract document instead of *)
(* the heap.                                                               *)
(***************************************************************************)
\* position of the first pair of object v whose key is name, 0 if none
PosOf(v, name) ==
    LET hits == {i \in 1..Len(v.keys) : v.keys[i] = name}
    IN IF hits = {} THEN 0 ELSE CHOOSE i \in hits : \A j \in hits : i <= j

\* v is an object whose known keys carry values of the kind the schema of
\* ty gives them (unknown keys carry anything)
RECURSIVE WellKinded(_, _)
WellKinded(ty, v) ==
    /\ v.t = "object"
    /\ \A k \in 1..Len(Schema(ty)) :
         LET d == Schema(ty)[k]
             i == PosOf(v, d.name)
         IN i # 0 =>
              CASE d.kind = "bool" -> v.values[i].t \in {"true", "false"}
                [] d.kind = "string" -> v.values[i].t = "string"
                [] d.kind = "strarr" ->
                     /\ v.values[i].t = "array"
                     /\ \A j \in 1..Len(v.values[i].values) :
                          v.values[i].values[j].t = "string"
                [] d.kind = "nested" -> WellKinded(d.nested, v.values[i])

\* the emitter calls that write JSON value v as it stands
RECURSIVE Verbatim(_), VerbatimSeq(_, _), VerbatimPairs(_, _)
VerbatimSeq(vs, i) ==
    IF i > Len(vs) THEN <<>> ELSE Verbatim(vs[i]) \o VerbatimSeq(vs, i + 1)
VerbatimPairs(v, i) ==
    IF i > Len(v.keys) THEN <<>>
    ELSE <<Ev("string", v.keys[i], FALSE)>> \o Verbatim(v.values[i])
           \o VerbatimPairs(v, i + 1)
Verbatim(v) ==
    CASE v.t = "string" -> <<Ev("string", v.s, FALSE)>>
      [] v.t = "number" -> <<Ev("number", v.s, FALSE)>>
      [] v.t = "true" -> <<Ev("bool", "", TRUE)>>
      [] v.t = "false" -> <<Ev("bool", "", FALSE)>>
      [] v.t = "null" -> <<Ev("null", "", FALSE)>>
      [] v.t = "array" ->
           <<Ev("array_open", "", FALSE)>> \o VerbatimSeq(v.values, 1)
             \o <<Ev("array_close", "", FALSE)>>
      [] v.t = "object" ->
           <<Ev("map_open", "", FALSE)>> \o VerbatimPairs(v, 1)
             \o <<Ev("map_close", "", FALSE)>>

\* the object a round trip of v through type ty is to give: the known keys
\* in schema order (a nested record in its own schema order), then the
\* unknown keys in the order v has them, values unchanged
RECURSIVE Expected(_, _), ExpectedKnown(_, _, _), ExpectedUnknown(_, _, _)
ExpectedKnown(ty, v, k) ==
    IF k > Len(Schema(ty)) THEN <<>>
    ELSE (IF PosOf(v, Schema(ty)[k].name) = 0 THEN <<>>
          ELSE <<Ev("string", Schema(ty)[k].name, FALSE)>> \o
               (IF Schema(ty)[k].kind = "nested"
                THEN Expected(Schema(ty)[k].nested,
                              v.values[PosOf(v, Schema(ty)[k].name)])
                ELSE Verbatim(v.values[PosOf(v, Schema(ty)[k].name)])))
         \o ExpectedKnown(ty, v, k + 1)
ExpectedUnknown(ty, v, i) ==
    IF i > Len(v.keys) THEN <<>>
    ELSE (IF v.keys[i] \in Names(ty) THEN <<>>
          ELSE <<Ev("string", v.keys[i], FALSE)>> \o Verbatim(v.values[i]))
         \o ExpectedUnknown(ty, v, i + 1)
Expected(ty, v) ==
    <<Ev("map_open", "", FALSE)>> \o ExpectedKnown(ty, v, 1)
      \o ExpectedUnknown(ty, v, 1) \o <<Ev("map_close", "", FALSE)>>

\* the last call was gen_* on the record decoded from the document, and no
\* allocation failed while it was decoded
EncodedRecord ==
    last.op = "gen" /\ last.which = "rec" /\ rec.a # 0 /\ hist.failAt = 0

(***************************************************************************)
(* C1: round trip.  A document that is an object whose known keys have     *)
(* values of the schema's kind, decoded with OPT_PARSE_FULLKEY (every      *)
(* allocation succeeding) and encoded without OPT_GEN_KEY_VALUE, comes out *)
(* as an object holding every key of the document with its value: the     *)
(* known keys first, in schema order, the unknown keys after them in their *)
(* original order.                                                         *)
(***************************************************************************)
C1_RoundTrip ==
    (/\ EncodedRecord
     /\ hist.fullkey
     /\ OPT_GEN_KEY_VALUE \notin last.ctx.options
     /\ WellKinded(doc.ty, doc.val))
    => /\ last.e.stat = "ok"
       /\ last.e.calls = Expected(doc.ty, doc.val)

\* the spec's example: {"v1": true, "unknownKey": "x"} comes back whole
C1_Witness ==
    /\ EncodedRecord
    /\ hist.fullkey
    /\ OPT_GEN_KEY_VALUE \notin last.ctx.options
    /\ doc.ty = "cgroup"
    /\ doc.val = JObj(<<"v1", "unknownKey">>, <<JTrue, JStr("x")>>)
    /\ last.e.calls = <<Ev("map_open", "", FALSE), Ev("string", "v1", FALSE),
                        Ev("bool", "", TRUE), Ev("string", "unknownKey", FALSE),
                        Ev("string", "x", FALSE), Ev("map_close", "", FALSE)>>

(***************************************************************************)
(* C2: a clone of a record that holds a residual with unknown keys holds a *)
(* residual equal to it, and so encodes to the same calls as the record.   *)
(***************************************************************************)
C2_CloneCopiesResidual ==
    (cln.a # 0 /\ hist.recView.residual.keys # <<>>)
    => /\ hist.clnView.residual = hist.recView.residual
       /\ (last.op = "clone" /\ rec.state = "made")
          => gen_record(doc.ty, Emitter(0), heap, cln.a, NoCtx).calls
               = gen_record(doc.ty, Emitter(0), heap, rec.a, NoCtx).calls

(***************************************************************************)
(* C3: release.  free_* of a NULL record changes nothing; the first        *)
(* free_* of a record frees every cell the record reaches exactly once and *)
(* nothing else; a second free_* through the same (now stale) pointer is   *)
(* not a no-op: the record cell is handed to free a second time, which is  *)
(* undefined behaviour.                                                    *)
(***************************************************************************)
ReleaseStep(w, from, to) ==
    /\ Ptr(w).state = from
    /\ (IF w = "rec" THEN rec' ELSE cln').state = to

C3_ReleaseOnce ==
    [][\A w \in {"rec", "cln"} :
         /\ (ReleaseStep(w, "made", "freed") /\ Ptr(w).a = 0)
              => heap' = heap /\ ~ub'
         /\ (ReleaseStep(w, "made", "freed") /\ Ptr(w).a # 0)
              => /\ ~ub'
                 /\ Len(heap') = Len(heap)
                 /\ \A x \in 1..Len(heap) :
                      heap'[x].frees = heap[x].frees
                          + (IF x \in Reach(heap, Ptr(w).a) THEN 1 ELSE 0)
                 /\ \A x \in Reach(heap, Ptr(w).a) : heap'[x].frees = 1
         /\ ReleaseStep(w, "freed", "freed2")
              => ub' /\ heap'[Ptr(w).a].frees = 2]_vars

\* a record with a string member was released twice
C3_Witness ==
    /\ rec.state = "freed2"
    /\ hist.recView.f # <<>>
    /\ \E k \in 1..Len(hist.recView.f) : hist.recView.f[k].present
    /\ heap[rec.a].frees = 2
    /\ ub

\* the claim as stated: whatever is released again, no cell is freed twice
C3_Idempotent ==
    /\ ~ub
    /\ \A x \in 1..Len(heap) : heap[x].frees <= 1

(***************************************************************************)
(* C4: exclusive ownership.  As long as no record is released twice, every *)
(* live cell is referred to by exactly one owner (one pointer held in a    *)
(* live cell, or one of the caller's own pointers: the tree, the record,   *)
(* the clone, the error message), no live cell refers to a freed one, no   *)
(* cell is freed twice, and once the tree, the record and the clone are    *)
(* all released every cell but the error message has been freed once.      *)
(***************************************************************************)
Roots ==
    (IF doc.state = "parsed" /\ doc.tree # 0 THEN <<doc.tree>> ELSE <<>>)
      \o (IF rec.state = "made" /\ rec.a # 0 THEN <<rec.a>> ELSE <<>>)
      \o (IF cln.state = "made" /\ cln.a # 0 THEN <<cln.a>> ELSE <<>>)
      \o (IF rec.err # 0 THEN <<rec.err>> ELSE <<>>)

Owners(a) == Refs(heap, a) + Len(SelectSeq(Roots, LAMBDA x : x = a))

AllReleased ==
    /\ doc.state = "freed"
    /\ rec.state = "freed"
    /\ cln.state = "freed" \/ (cln.state = "none" /\ rec.a = 0)

C4_ExclusiveOwnership ==
    ~hist.again
    => /\ ~ub
       /\ \A a \in 1..Len(heap) :
            /\ heap[a].frees <= 1
            /\ heap[a].frees = 0
                 => /\ Owners(a) = 1
                    /\ \A i \in 1..Len(Targets(heap[a])) :
                         heap[Targets(heap[a])[i]].frees = 0
       /\ AllReleased => \A a \in 1..Len(heap) : a # rec.err => heap[a].frees = 1

\* unknown keys were detached into the record, the record was cloned, and
\* tree, record and clone have all been released
C4_Witness ==
    /\ AllReleased
    /\ cln.state = "freed"
    /\ hist.fullkey
    /\ hist.recView.residual.keys # <<>>
    /\ hist.src.keys # <<>>
    /\ \A a \in 1..Len(heap) : heap[a].frees = 1

(***************************************************************************)
(* C5: deep independence of clones.  While a record and its clone both     *)
(* exist no cell is reached from both, so overwriting any string of one    *)
(* leaves what the other shows unchanged; and after one of the two has     *)
(* been released the other still shows what it showed when it was made,    *)
(* with every cell it reaches live.                                        *)
(***************************************************************************)
Scribbled(h, x) == [h EXCEPT ![x].s = "scribbled"]
StrCells(h, a) == {x \in Reach(h, a) : h[x].kind = "str"}
Intact(p, view) ==
    /\ RecView(heap, doc.ty, p.a) = view
    /\ \A x \in Reach(heap, p.a) : heap[x].frees = 0

C5_CloneIndependent ==
    /\ (rec.state = "made" /\ cln.state = "made" /\ rec.a # 0 /\ cln.a # 0)
       => /\ Reach(heap, rec.a) \cap Reach(heap, cln.a) = {}
          /\ \A x \in StrCells(heap, cln.a) :
               RecView(Scribbled(heap, x), doc.ty, rec.a) = hist.recView
          /\ \A x \in StrCells(heap, rec.a) :
               RecView(Scribbled(heap, x), doc.ty, cln.a) = hist.clnView
    /\ (rec.state = "made" /\ rec.a # 0 /\ cln.state = "freed")
       => Intact(rec, hist.recView)
    /\ (cln.state = "made" /\ cln.a # 0 /\ rec.state = "freed")
       => Intact(cln, hist.clnView)

\* the clone of a record with a non-empty string array has been released
\* and the record still shows the array
C5_Witness ==
    /\ rec.state = "made" /\ rec.a # 0
    /\ cln.state = "freed" /\ cln.a # 0
    /\ \E k \in 1..Len(hist.recView.f) : hist.recView.f[k].elems # <<>>
    /\ Intact(rec, hist.recView)

(***************************************************************************)
(* C6: required field.  Decoding an object without a usable "type" (the    *)
(* key missing, {} included, or its value no string), no allocation        *)
(* failing, returns no record and the message that names "type"; every     *)
(* cell the call allocated except that message has been freed, and the     *)
(* tree is as it was.                                                      *)
(***************************************************************************)
Usable(v, name) == PosOf(v, name) # 0 /\ v.values[PosOf(v, name)].t = "string"
MadeFrom(ty) ==
    last.op = "make" /\ last.failAt = 0 /\ doc.ty = ty /\ doc.val.t = "object"
MissingType ==
    /\ rec.a = 0
    /\ rec.err # 0
    /\ heap[rec.err].s = <<"Required field not present", "type">>

C6_RequiredField ==
    (MadeFrom("namespace_reference") /\ ~Usable(doc.val, "type"))
    => /\ MissingType
       /\ \A a \in (doc.tree + 1)..Len(heap) : a # rec.err => heap[a].frees = 1
       /\ \A a \in 1..doc.tree : heap[a].frees = 0
       /\ ReadVal(heap, doc.tree) = doc.val

\* {"path": "/p"}: the record and the copy of path were allocated and freed
C6_Witness ==
    /\ MadeFrom("namespace_reference")
    /\ doc.val = JObj(<<"path">>, <<JStr("/p")>>)
    /\ MissingType
    /\ Len(heap) = doc.tree + 3
    /\ heap[doc.tree + 2] = [StrCell("/p") EXCEPT !.frees = 1]

(***************************************************************************)
(* C7: decode of an absent (NULL) tree returns no record and no error,     *)
(* whether or not the type has a required field, and allocates nothing.    *)
(***************************************************************************)
AbsentDecoded == last.op = "make" /\ doc.tree = 0

C7_AbsentTreeNoRecord ==
    AbsentDecoded => rec.a = 0 /\ rec.err = 0 /\ heap = <<>> /\ ~ub

\* the type with the required field, decoded from NULL
C7_Witness ==
    /\ AbsentDecoded
    /\ doc.ty = "namespace_reference"
    /\ rec.a = 0
    /\ rec.err = 0

\* the claim as stated: an all-absent record, or the error naming the first
\* required field
C7_AbsentTreeDecodes ==
    AbsentDecoded
    => IF \E k \in 1..Len(Schema(doc.ty)) : Schema(doc.ty)[k].required
       THEN /\ rec.a = 0
            /\ rec.err # 0
            /\ heap[rec.err].s =
                 <<"Required field not present",
                   Schema(doc.ty)[CHOOSE k \in 1..Len(Schema(doc.ty)) :
                      /\ Schema(doc.ty)[k].required
                      /\ \A j \in 1..(k - 1) : ~Schema(doc.ty)[j].required].name>>
       ELSE /\ rec.a # 0
            /\ \A k \in 1..Len(hist.recView.f) : ~hist.recView.f[k].present

(***************************************************************************)
(* C8: tri-state booleans.  A boolean member of a decoded record is absent *)
(* when the document has no such key or a value that is neither true nor   *)
(* false, present and true for true, present and false for false (nested   *)
(* records alike); a clone has the same value and the same presence flag   *)
(* in every boolean member.                                                *)
(***************************************************************************)
Tri(fv) == IF ~fv.present THEN "absent" ELSE IF fv.b THEN "true" ELSE "false"
TriOf(v, name) ==
    IF v.t # "object" \/ PosOf(v, name) = 0 THEN "absent"
    ELSE IF v.values[PosOf(v, name)].t \in {"true", "false"}
         THEN v.values[PosOf(v, name)].t ELSE "absent"

\* view shows, in every boolean member, what document v gives for it
RECURSIVE BoolsDecoded(_, _, _)
BoolsDecoded(ty, view, v) ==
    \A k \in 1..Len(Schema(ty)) :
      /\ Schema(ty)[k].kind = "bool"
           => Tri(view.f[k]) = TriOf(v, Schema(ty)[k].name)
      /\ (Schema(ty)[k].kind = "nested" /\ view.f[k].present)
           => BoolsDecoded(Schema(ty)[k].nested, view.f[k].sub,
                           v.values[PosOf(v, Schema(ty)[k].name)])

\* views a and b agree on every boolean member
RECURSIVE BoolsEqual(_, _, _)
BoolsEqual(ty, a, b) ==
    \A k \in 1..Len(Schema(ty)) :
      /\ Schema(ty)[k].kind = "bool"
           => a.f[k].present = b.f[k].present /\ a.f[k].b = b.f[k].b
      /\ Schema(ty)[k].kind = "nested"
           => /\ a.f[k].present = b.f[k].present
              /\ a.f[k].present => BoolsEqual(Schema(ty)[k].nested, a.f[k].sub, b.f[k].sub)

C8_TriState ==
    /\ rec.a # 0 => BoolsDecoded(doc.ty, hist.recView, doc.val)
    /\ cln.a # 0 => BoolsEqual(doc.ty, hist.clnView, hist.recView)

\* {"v1": "yes", "rdma": false}: v1 absent, rdma present and false, in the
\* record and in its clone
C8_Witness ==
    /\ doc.ty = "cgroup"
    /\ doc.val = JObj(<<"v1", "rdma">>, <<JStr("yes"), JFalse>>)
    /\ rec.a # 0
    /\ cln.a # 0
    /\ Tri(hist.clnView.f[Idx("cgroup", "v1")]) = "absent"
    /\ Tri(hist.clnView.f[Idx("cgroup", "rdma")]) = "false"
    /\ Tri(hist.recView.f[Idx("cgroup", "rdma")]) = "false"

(***************************************************************************)
(* C9: a string member whose key is present with a value that is not a     *)
(* JSON string is left absent (no empty string is stored): for the         *)
(* optional "path" the decode succeeds with path absent, for the required  *)
(* "type" it returns no record and the message that names "type".          *)
(***************************************************************************)
WrongKind(v, name) == PosOf(v, name) # 0 /\ v.values[PosOf(v, name)].t # "string"

C10_NestedFailurePropagates ==
    (last.op = "make" /\ rec.a # 0 /\ doc.val.t = "object")
    => \A k \in 1..Len(Schema(doc.ty)) :
         (/\ Schema(doc.ty)[k].kind = "nested"
          /\ PosOf(doc.val, Schema(doc.ty)[k].name) # 0
          /\ doc.val.values[PosOf(doc.val, Schema(doc.ty)[k].name)].t = "object")
         => hist.recView.f[k].present

(***************************************************************************)
(* C11: unknown-key capture.  After a successful decode of an object with  *)
(* OPT_PARSE_FULLKEY the residual holds, in source order, exactly the      *)
(* entries of the source whose key is no wire name of the type, its length *)
(* being their number; in the source object those slots are NULL (key and  *)
(* value) and the slots of the known keys are as they were (a nested       *)
(* object decoded through a known key having given up its own unknown      *)
(* keys in the same way).                                                  *)
(***************************************************************************)
UnknownIdx(ty, v) ==
    SelectSeq([i \in 1..Len(v.keys) |-> i], LAMBDA i : v.keys[i] \notin Names(ty))
ResidualOf(ty, v) ==
    JObj([j \in 1..Len(UnknownIdx(ty, v)) |-> v.keys[UnknownIdx(ty, v)[j]]],
         [j \in 1..Len(UnknownIdx(ty, v)) |-> v.values[UnknownIdx(ty, v)[j]]])

\* the kind of member the key name is decoded into ("" for an unknown key)
KindOf(ty, name) ==
    IF name \in Names(ty) THEN Schema(ty)[Idx(ty, name)].kind ELSE ""

\* the source object as a decode with OPT_PARSE_FULLKEY leaves it
RECURSIVE SourceAfter(_, _)
SourceAfter(ty, v) ==
    IF v.t # "object" THEN v
    ELSE JObj([i \in 1..Len(v.keys) |->
                 IF v.keys[i] \in Names(ty) THEN v.keys[i] ELSE NullKey],
              [i \in 1..Len(v.keys) |->
                 IF v.keys[i] \notin Names(ty) THEN JNULL
                 ELSE IF KindOf(ty, v.keys[i]) = "nested"
                      THEN SourceAfter(Schema(ty)[Idx(ty, v.keys[i])].nested,
                                       v.values[i])
                      ELSE v.values[i]])

Captured ==
    last.op = "make" /\ rec.a # 0 /\ hist.fullkey /\ doc.val.t = "object"

C11_UnknownCaptured ==
    Captured
    => /\ hist.recView.residual = ResidualOf(doc.ty, doc.val)
       /\ heap[heap[rec.a].residual].len = Len(UnknownIdx(doc.ty, doc.val))
       /\ Len(hist.src.keys) = Len(doc.val.keys)
       /\ \A i \in 1..Len(doc.val.keys) :
            IF doc.val.keys[i] \in Names(doc.ty)
            THEN /\ hist.src.keys[i] = doc.val.keys[i]
                 /\ KindOf(doc.ty, doc.val.keys[i]) # "nested"
                      => hist.src.values[i] = doc.val.values[i]
            ELSE hist.src.keys[i] = NullKey /\ hist.src.values[i] = JNULL
       /\ hist.failAt = 0 => hist.src = SourceAfter(doc.ty, doc.val)

\* {"unknownKey": "x", "v1": true}: the first slot moved, the second stayed
C11_Witness ==
    /\ Captured
    /\ doc.ty = "cgroup"
    /\ doc.val = JObj(<<"unknownKey", "v1">>, <<JStr("x"), JTrue>>)
    /\ hist.recView.residual = JObj(<<"unknownKey">>, <<JStr("x")>>)
    /\ hist.src = JObj(<<NullKey, "v1">>, <<JNULL, JTrue>>)

(***************************************************************************)
(* C12: string arrays.  A string array member of a decoded record is       *)
(* present exactly when the document gives its key a JSON array; it then   *)
(* has as many elements as that array, the i-th being the text of the i-th *)
(* input element, or the empty string when that element is no string.  An  *)
(* array without elements is present with length 0, and gen_* without      *)
(* OPT_GEN_KEY_VALUE still emits its key followed by an empty array.       *)
(***************************************************************************)
TextOf(v) == IF v.t = "string" THEN v.s ELSE ""
IsArrayAt(v, name) ==
    v.t = "object" /\ PosOf(v, name) # 0 /\ v.values[PosOf(v, name)].t = "array"
ElemsAt(v, name) ==
    [j \in 1..Len(v.values[PosOf(v, name)].values) |->
       TextOf(v.values[PosOf(v, name)].values[j])]

\* calls holds, one after the other, the key name and an array with no element
EmitsEmptyArray(calls, name) ==
    \E i \in 1..(Len(calls) - 2) :
      /\ calls[i] = Ev("string", name, FALSE)
      /\ calls[i + 1] = Ev("array_open", "", FALSE)
      /\ calls[i + 2] = Ev("array_close", "", FALSE)

C12_StringArrays ==
    rec.a # 0
    => \A k \in 1..Len(Schema(doc.ty)) :
         Schema(doc.ty)[k].kind = "strarr"
         => /\ hist.recView.f[k].present = IsArrayAt(doc.val, Schema(doc.ty)[k].name)
            /\ hist.recView.f[k].present
                 => /\ hist.recView.f[k].elems = ElemsAt(doc.val, Schema(doc.ty)[k].name)
                    /\ rec.state = "made"
                         => heap[rec.a].f[Schema(doc.ty)[k].name].len
                              = Len(ElemsAt(doc.val, Schema(doc.ty)[k].name))
            /\ (/\ last.op = "gen" /\ last.which = "rec"
                /\ OPT_GEN_KEY_VALUE \notin last.ctx.options
                /\ hist.recView.f[k].present
                /\ hist.recView.f[k].elems = <<>>)
                 => EmitsEmptyArray(last.e.calls, Schema(doc.ty)[k].name)

\* {"actions": [], "archs": [1, "z"]} decoded and encoded again
C12_Witness ==
    /\ rec.a # 0
    /\ doc.ty = "seccomp"
    /\ doc.val = JObj(<<"actions", "archs">>,
                      <<JArr(<<>>), JArr(<<JNum("1"), JStr("z")>>)>>)
    /\ hist.recView.f[Idx("seccomp", "actions")].present
    /\ hist.recView.f[Idx("seccomp", "actions")].elems = <<>>
    /\ hist.recView.f[Idx("seccomp", "archs")].elems = <<"", "z">>
    /\ ~hist.recView.f[Idx("seccomp", "operators")].present
    /\ last.op = "gen" /\ last.which = "rec"
    /\ last.ctx.options = {}
    /\ EmitsEmptyArray(last.e.calls, "actions")

(***************************************************************************)
(* C13: encoder presence rule.  Without OPT_GEN_KEY_VALUE gen_* emits a    *)
(* known member exactly when the record has it; with OPT_GEN_KEY_VALUE it  *)
(* emits every member of the schema, an absent boolean as false, an absent *)
(* string as "", an absent array as an empty array and an absent nested    *)
(* record (or a NULL record) as the nested object with its own members at  *)
(* their defaults.  Stated on what a caller sees of the record (RecView).  *)
(***************************************************************************)
Has(view, k) == ~view.absent /\ view.f[k].present

RECURSIVE ShownAs(_, _, _), MembersShown(_, _, _, _)
\* the calls for the members k.. of ty, for a record showing view
MembersShown(ty, view, kv, k) ==
    IF k > Len(Schema(ty)) THEN <<>>
    ELSE (IF ~(kv \/ Has(view, k)) THEN <<>>
          ELSE <<Ev("string", Schema(ty)[k].name, FALSE)>> \o
               CASE Schema(ty)[k].kind = "bool" ->
                      <<Ev("bool", "", Has(view, k) /\ view.f[k].b)>>
                 [] Schema(ty)[k].kind = "string" ->
                      <<Ev("string", IF Has(view, k) THEN view.f[k].s ELSE "", FALSE)>>
                 [] Schema(ty)[k].kind = "strarr" ->
                      <<Ev("array_open", "", FALSE)>> \o
                      (IF Has(view, k)
                       THEN [j \in 1..Len(view.f[k].elems) |->
                               Ev("string", view.f[k].elems[j], FALSE)]
                       ELSE <<>>) \o
                      <<Ev("array_close", "", FALSE)>>
                 [] Schema(ty)[k].kind = "nested" ->
                      ShownAs(Schema(ty)[k].nested,
                              IF Has(view, k) THEN view.f[k].sub ELSE NoView, kv))
         \o MembersShown(ty, view, kv, k + 1)
\* the calls for a whole record: its members, then its residual pairs
ShownAs(ty, view, kv) ==
    <<Ev("map_open", "", FALSE)>> \o MembersShown(ty, view, kv, 1)
      \o (IF view.residual.t = "object" THEN VerbatimPairs(view.residual, 1) ELSE <<>>)
      \o <<Ev("map_close", "", FALSE)>>

\* gen_* has just returned ok for the record or the clone (NULL included)
Generated == last.op = "gen" /\ last.e.stat = "ok"
GenView == RecView(heap, doc.ty, Ptr(last.which).a)
GenKV == OPT_GEN_KEY_VALUE \in last.ctx.options

C13_PresenceRule ==
    last.op = "gen"
    => /\ last.e.stat = "ok"
       /\ last.e.calls = ShownAs(doc.ty, GenView, GenKV)

\* a record with only "type" encoded with OPT_GEN_KEY_VALUE: "path" is
\* emitted as the empty string
C13_Witness ==
    /\ Generated
    /\ GenKV
    /\ doc.ty = "namespace_reference"
    /\ rec.a # 0
    /\ last.which = "rec"
    /\ ~hist.recView.f[Idx("namespace_reference", "path")].present
    /\ hist.recView.residual.t = "NULL"
    /\ last.e.calls = <<Ev("map_open", "", FALSE), Ev("string", "type", FALSE),
                        Ev("string", "pid", FALSE), Ev("string", "path", FALSE),
                        Ev("string", "", FALSE), Ev("map_close", "", FALSE)>>

(***************************************************************************)
(* C14: emission order.  In every successful encode the first call is      *)
(* open-object and the last close-object, and the keys emitted at the top  *)
(* level of that object are the emitted known members in schema order      *)
(* followed by the residual keys in their stored order: no residual key    *)
(* comes before a known member.                                            *)
(***************************************************************************)
IsOpen(ev) == ev.op \in {"map_open", "array_open"}
IsClose(ev) == ev.op \in {"map_close", "array_close"}

\* the keys at the top level of the object written by calls: i is the call
\* looked at, depth the number of values open inside the object, key whether
\* a key is due
RECURSIVE TopKeys(_, _, _, _)
TopKeys(calls, i, depth, key) ==
    IF i >= Len(calls) THEN <<>>
    ELSE IF depth = 0 /\ key THEN <<calls[i].s>> \o TopKeys(calls, i + 1, 0, FALSE)
    ELSE IF depth = 0 THEN TopKeys(calls, i + 1, IF IsOpen(calls[i]) THEN 1 ELSE 0,
                                   ~IsOpen(calls[i]))
    ELSE IF IsOpen(calls[i]) THEN TopKeys(calls, i + 1, depth + 1, FALSE)
    ELSE IF IsClose(calls[i]) THEN TopKeys(calls, i + 1, depth - 1, depth = 1)
    ELSE TopKeys(calls, i + 1, depth, FALSE)

\* the wire names of the members gen_* is to emit, in schema order
KnownShown(ty, view, kv) ==
    SelectSeq([k \in 1..Len(Schema(ty)) |-> Schema(ty)[k].name],
              LAMBDA n : kv \/ Has(view, Idx(ty, n)))

C14_EmissionOrder ==
    Generated
    => /\ Len(last.e.calls) >= 2
       /\ last.e.calls[1] = Ev("map_open", "", FALSE)
       /\ last.e.calls[Len(last.e.calls)] = Ev("map_close", "", FALSE)
       /\ TopKeys(last.e.calls, 2, 0, TRUE)
            = KnownShown(doc.ty, GenView, GenKV) \o GenView.residual.keys

\* two known members and two residual keys, the document having them in
\* another order
C14_Witness ==
    /\ Generated
    /\ last.which = "rec"
    /\ doc.ty = "cgroup"
    /\ doc.val.keys = <<"zz", "rdma">>
    /\ GenKV
    /\ hist.fullkey
    /\ TopKeys(last.e.calls, 2, 0, TRUE)
         = <<"v1", "v2", "systemd", "systemdUser", "rdma", "zz">>

(***************************************************************************)
(* C15: emitter failure is propagated at once.  When the k-th emitter call *)
(* of an encode returns a status other than ok, that call is the last one  *)
(* the emitter receives (at whatever nesting level it was made), the calls *)
(* made up to it are those of the unfailing encode, and gen_* returns the  *)
(* status that is not ok.                                                  *)
(***************************************************************************)
C15_FailurePropagates ==
    (last.op = "gen" /\ last.e.failAt # 0)
    => /\ last.e.stat = "err"
       /\ Len(last.e.calls) = last.e.failAt
       /\ last.e.calls = SubSeq(ShownAs(doc.ty, GenView, GenKV), 1, last.e.failAt)

\* the emitter failed on a value inside the nested record, two objects deep
C15_Witness ==
    /\ last.op = "gen"
    /\ last.e.failAt = 5
    /\ last.e.stat = "err"
    /\ doc.ty = "mount_extensions"
    /\ ~GenKV
    /\ last.e.calls = <<Ev("map_open", "", FALSE), Ev("string", "idmap", FALSE),
                        Ev("map_open", "", FALSE), Ev("string", "enabled", FALSE),
                        Ev("bool", "", TRUE)>>

(***************************************************************************)
(* C16: OPT_PARSE_STRICT never changes the decode outcome.  What a decode  *)
(* returned and left behind (record, error, every cell of the heap, the    *)
(* source tree among them) is what the same call gives on the same tree    *)
(* with OPT_PARSE_STRICT switched the other way, the other options, the    *)
(* error sink and the allocation failure being the same; and a decode in   *)
(* which no allocation fails is never refused for an unknown key.          *)
(***************************************************************************)
Flipped(c) ==
    Ctx(IF OPT_PARSE_STRICT \in c.options THEN c.options \ {OPT_PARSE_STRICT}
        ELSE c.options \cup {OPT_PARSE_STRICT}, c.errfile)

\* the call just made, made again on the tree as the parser built it
Remade(c) ==
    make_record(doc.ty, Machine(BuildVal(<<>>, doc.val).h, last.failAt), doc.tree, c)

SameOutcome(r) ==
    /\ r.ret = rec.a
    /\ r.err = rec.err
    /\ r.m.heap = heap
    /\ r.m.ub = ub

C16_StrictSameOutcome ==
    (last.op = "make" /\ doc.tree # 0)
    => /\ SameOutcome(Remade(Flipped(last.ctx)))
       /\ (last.failAt = 0 /\ rec.a = 0) => MissingType

\* unknown keys, strict mode and an error sink: the warning was written and
\* the record returned with the unknown keys in its residual
C16_Witness ==
    /\ last.op = "make"
    /\ OPT_PARSE_STRICT \in last.ctx.options
    /\ last.ctx.errfile # 0
    /\ last.warn = 1
    /\ rec.a # 0
    /\ hist.recView.residual.keys # <<>>
    /\ Remade(Flipped(last.ctx)).m.warn = 0
    /\ SameOutcome(Remade(Flipped(last.ctx)))

(***************************************************************************)
(* C17: empty arrays.  gen_* switches the emitter's beautify setting off   *)
(* before array-open and on again after array-close exactly around the     *)
(* string array members it emits without elements, and only when           *)
(* OPT_GEN_SIMPLIFY is NOT set; with OPT_GEN_SIMPLIFY set, or around an     *)
(* array with elements, the setting is never touched.                      *)
(***************************************************************************)
\* how many string array members gen_* emits without elements
RECURSIVE EmptyShown(_, _, _), EmptyShownFrom(_, _, _, _)
EmptyShownFrom(ty, view, kv, k) ==
    IF k > Len(Schema(ty)) THEN 0
    ELSE (IF ~(kv \/ Has(view, k)) THEN 0
          ELSE CASE Schema(ty)[k].kind = "strarr" ->
                      IF Has(view, k) /\ view.f[k].elems # <<>> THEN 0 ELSE 1
                 [] Schema(ty)[k].kind = "nested" ->
                      EmptyShown(Schema(ty)[k].nested,
                                 IF Has(view, k) THEN view.f[k].sub ELSE NoView, kv)
                 [] OTHER -> 0)
         + EmptyShownFrom(ty, view, kv, k + 1)
EmptyShown(ty, view, kv) == EmptyShownFrom(ty, view, kv, 1)

StrArrNames ==
    {"namespaces", "capabilities", "actions", "operators", "archs", "knownFlags",
     "supportedFlags"}

\* cfg is n switches off and on again, each around an empty array that
\* follows the key of a string array member
AroundEmptyArrays(e, n) ==
    /\ Len(e.cfg) = 2 * n
    /\ \A j \in 1..n :
         /\ ~e.cfg[2 * j - 1].on
         /\ e.cfg[2 * j].on
         /\ e.cfg[2 * j].at = e.cfg[2 * j - 1].at + 2
         /\ e.calls[e.cfg[2 * j - 1].at].op = "string"
         /\ e.calls[e.cfg[2 * j - 1].at].s \in StrArrNames
         /\ e.calls[e.cfg[2 * j - 1].at + 1].op = "array_open"
         /\ e.calls[e.cfg[2 * j - 1].at + 2].op = "array_close"

C17_CollapseUnlessSimplify ==
    Generated
    => IF OPT_GEN_SIMPLIFY \in last.ctx.options THEN last.e.cfg = <<>>
       ELSE AroundEmptyArrays(last.e, EmptyShown(doc.ty, GenView, GenKV))

\* {"actions": [], "archs": [1, "z"]} encoded with no option: one switch
\* off and on, around the array of actions and not around that of archs
C17_Witness ==
    /\ Generated
    /\ last.ctx.options = {}
    /\ doc.ty = "seccomp"
    /\ last.e.calls = <<Ev("map_open", "", FALSE), Ev("string", "actions", FALSE),
                        Ev("array_open", "", FALSE), Ev("array_close", "", FALSE),
                        Ev("string", "archs", FALSE), Ev("array_open", "", FALSE),
                        Ev("string", "", FALSE), Ev("string", "z", FALSE),
                        Ev("array_close", "", FALSE), Ev("map_close", "", FALSE)>>
    /\ last.e.cfg = <<[at |-> 2, on |-> FALSE], [at |-> 4, on |-> TRUE]>>

\* the claim as stated: the switches are made when OPT_GEN_SIMPLIFY is set
\* and never when it is not
C17_CollapseWhenSimplify ==
    Generated
    => IF OPT_GEN_SIMPLIFY \notin last.ctx.options THEN last.e.cfg = <<>>
       ELSE AroundEmptyArrays(last.e, EmptyShown(doc.ty, GenView, GenKV))

(***************************************************************************)
(* C18: decode unwinds on allocation failure.  When an allocation of a     *)
(* decode has failed, the decode returns no record, and every cell the     *)
(* call allocated (other than a returned error message) has been freed     *)
(* exactly once.                                                           *)
(***************************************************************************)
C18_DecodeUnwinds ==
    (last.op = "make" /\ last.failAt # 0)
    => /\ rec.a = 0
       /\ \A a \in (doc.tree + 1)..Len(heap) : a # rec.err => heap[a].frees = 1

(***************************************************************************)
(* C19: no decode error is swallowed.  A decode of a tree that is not NULL *)
(* never returns "no record" without an error value.                       *)
(***************************************************************************)
C19_FailureReported ==
    (last.op = "make" /\ doc.tree # 0 /\ rec.a = 0) => rec.err # 0

(***************************************************************************)
(* C20: clone is all or nothing.  A clone in which an allocation fails     *)
(* (in the clone of a nested record as well) returns no record; every cell *)
(* it had allocated for the copy has been freed exactly once, and every    *)
(* cell that existed before the call, the source record among them, is     *)
(* exactly as it was.                                                      *)
(***************************************************************************)
C20_CloneAllOrNothing ==
    [][(cln.state = "none" /\ cln'.state = "made" /\ last'.failAt # 0)
       => /\ cln'.a = 0
          /\ ~ub'
          /\ Len(heap') >= Len(heap)
          /\ \A x \in 1..Len(heap) : heap'[x] = heap[x]
          /\ \A x \in (Len(heap) + 1)..Len(heap') : heap'[x].frees = 1]_vars

\* the fourth allocation failed: the copy, an array and an element had been
\* allocated and are freed, the record still shows what it showed
C20_Witness ==
    /\ last.op = "clone"
    /\ last.failAt = 4
    /\ cln.a = 0
    /\ rec.state = "made"
    /\ Intact(rec, hist.recView)
    /\ \E n \in 3..Len(heap) :
         /\ \A x \in (n - 2)..n : heap[x].frees = 1
         /\ heap[n - 2].kind = "rec"
         /\ heap[n - 1].kind = "arr"
         /\ heap[n].kind = "str"
         /\ n = Len(heap)

(***************************************************************************)
(* C21: calls on disjoint data do not interfere.  The tree, the record and *)
(* the clone a program holds share no cell, and every call (decode,        *)
(* encode, clone, release, release of the tree) reads and writes only the  *)
(* cells reached from its arguments and the cells it allocates: it leaves  *)
(* every other cell as it was, and it gives the same result when every     *)
(* other cell holds something else (another thread's data, in whatever     *)
(* state that thread has left it).  Calls on disjoint data therefore touch *)
(* no common location, and running them in any interleaving gives each the *)
(* result and final state it has alone.  Nothing but the arguments and the *)
(* per-call ctx enters a call: the functions have no static or global      *)
(* variable.                                                               *)
(***************************************************************************)
Footprint(a) == Reach(heap, a)
Held(p) == IF p.state = "made" THEN Footprint(p.a) ELSE {}
HeldTree == IF doc.state = "parsed" THEN Footprint(doc.tree) ELSE {}

\* the tree, the record and the clone share no cell
Apart ==
    /\ HeldTree \cap Held(rec) = {}
    /\ HeldTree \cap Held(cln) = {}
    /\ Held(rec) \cap Held(cln) = {}

\* the heap with every cell outside keep overwritten by somebody else
Poison == [StrCell("poison") EXCEPT !.frees = 1]
Elsewhere(keep) ==
    CHOOSE h \in {[x \in 1..Len(heap) |-> IF x \in keep THEN heap[x] ELSE Poison]} : TRUE

\* heap h2 is the heap of this step with the cells of keep as r left them
Framed(keep, h2) ==
    \E K \in {keep} : \E H \in {h2} :
      \A x \in 1..Len(heap) : heap'[x] = IF x \in K THEN H[x] ELSE heap[x]

\* the heap with the tree of another document behind it
Besides == BuildVal(heap, JObj(<<"k", "type">>, <<JArr(<<JTrue>>), JStr("v")>>)).h

\* the decode of this step gives, with another tree in the heap, what it
\* gave, and leaves that tree alone
DecodesAlike(r0) ==
    \E r \in {r0} :
    /\ RecView(r.m.heap, doc.ty, r.ret) = hist'.recView
    /\ ReadVal(r.m.heap, doc.tree) = hist'.src
    /\ (r.ret = 0) = (rec'.a = 0)
    /\ (r.err = 0) = (rec'.err = 0)
    /\ r.err # 0 => r.m.heap[r.err].s = heap'[rec'.err].s
    /\ r.m.warn = last'.warn
    /\ r.m.ub = ub'
    /\ \A x \in (Len(heap) + 1)..Len(Besides) :
         r.m.heap[x] = Besides[x]

\* the clone of this step gives, the rest of the heap overwritten, the
\* cells it gave
ClonesAlike(keep, r) ==
    \E K \in {keep} : \E R \in {r} :
      /\ R.ret = cln'.a
      /\ Len(R.m.heap) = Len(heap')
      /\ \A x \in 1..Len(heap') :
           heap'[x] = IF x \in K \/ x > Len(heap) THEN R.m.heap[x] ELSE heap[x]

Released(w) == Ptr(w).state = "freed" /\ Ptr(w).a # 0

C22_ReleaseComplete ==
    \A w \in {"rec", "cln"} :
      Released(w)
      => /\ heap[Ptr(w).a].frees = 1
         /\ \A x \in 1..Len(heap) :
              heap[x].frees = 0
              => \/ x \in HeldTree
                 \/ x \in Held(IF w = "rec" THEN cln ELSE rec)
                 \/ x = rec.err

\* a record with a string array, a nested record and that record's residual
\* has been released while the tree is still held: nothing but the tree is
\* left allocated
C22_Witness ==
    /\ Released("rec")
    /\ doc.state = "parsed"
    /\ cln.state = "none"
    /\ \E k \in 1..Len(hist.recView.f) : hist.recView.f[k].elems # <<>>
    /\ \E k \in 1..Len(hist.recView.f) :
         /\ hist.recView.f[k].present
         /\ ~hist.recView.f[k].sub.absent
         /\ hist.recView.f[k].sub.residual.keys # <<>>
    /\ \A x \in 1..Len(heap) : heap[x].frees = IF x \in HeldTree THEN 0 ELSE 1

(***************************************************************************)
(* C23: the strict diagnostic.  The warning is written only with           *)
(* OPT_PARSE_STRICT set and an error sink supplied, and at most once for   *)
(* each decoded object level that has a key which is no wire name.  A      *)
(* decode that returns a record has written it exactly once for each such  *)
(* level of the record (the record's own and those of its nested records), *)
(* with OPT_PARSE_FULLKEY or without it; a level whose decode fails (a     *)
(* required member missing, an allocation failing) returns before the      *)
(* warning and writes none.                                                *)
(***************************************************************************)
HasUnknown(ty, v) == v.t = "object" /\ UnknownIdx(ty, v) # <<>>
StrictSink(c) == OPT_PARSE_STRICT \in c.options /\ c.errfile # 0

\* the levels of document v with an unknown key that are decoded when the
\* members from(k) are: all of them, or those the record view shows
RECURSIVE Levels(_, _, _, _), LevelsFrom(_, _, _, _, _)
LevelsFrom(ty, v, view, all, k) ==
    IF k > Len(Schema(ty)) THEN 0
    ELSE (IF /\ Schema(ty)[k].kind = "nested"
             /\ PosOf(v, Schema(ty)[k].name) # 0
             /\ v.values[PosOf(v, Schema(ty)[k].name)].t = "object"
             /\ all \/ view.f[k].present
          THEN Levels(Schema(ty)[k].nested, v.values[PosOf(v, Schema(ty)[k].name)],
                      IF all THEN NoView ELSE view.f[k].sub, all)
          ELSE 0)
         + LevelsFrom(ty, v, view, all, k + 1)
Levels(ty, v, view, all) ==
    IF v.t # "object" THEN 0
    ELSE (IF HasUnknown(ty, v) THEN 1 ELSE 0) + LevelsFrom(ty, v, view, all, 1)

C23_StrictWarning ==
    (last.op = "make" /\ doc.tree # 0)
    => /\ ~StrictSink(last.ctx) => last.warn = 0
       /\ last.warn <= Levels(doc.ty, doc.val, NoView, TRUE)
       /\ (StrictSink(last.ctx) /\ rec.a # 0)
            => last.warn = Levels(doc.ty, doc.val, hist.recView, FALSE)
       /\ (rec.a = 0 /\ doc.ty \in {"namespace_reference", "cgroup", "seccomp"})
            => last.warn = 0

\* strict mode, a sink and capture: one warning for the unknown key of the
\* document and one for that of its nested object
C23_Witness ==
    /\ last.op = "make"
    /\ StrictSink(last.ctx)
    /\ OPT_PARSE_FULLKEY \in last.ctx.options
    /\ doc.ty = "mount_extensions"
    /\ doc.val = JObj(<<"idmap", "unknownKey">>,
                      <<JObj(<<"enabled", "u">>, <<JTrue, JStr("x")>>), JStr("x")>>)
    /\ rec.a # 0
    /\ last.warn = 2

\* the claim as stated: strict mode, a sink and an unknown key always give
\* the warning (no allocation failing)
C23_WarnedWheneverUnknown ==
    (last.op = "make" /\ doc.tree # 0 /\ last.failAt = 0)
    => last.warn = IF StrictSink(last.ctx)
                   THEN Levels(doc.ty, doc.val, NoView, TRUE) ELSE 0

(***************************************************************************)
(* C24: decode changes the source tree only under capture.  A decode       *)
(* without OPT_PARSE_FULLKEY, whether it returns a record or fails, in a   *)
(* flat or a nested type, leaves every cell of the source tree as the      *)
(* parser built it, and the record it returns has no residual, nor has any *)
(* of its nested records.  With or without capture the record shares no    *)
(* cell with the tree (the known values are copies), so that after the     *)
(* tree has been released the record still shows what it showed, every     *)
(* cell it reaches being live.                                             *)
(***************************************************************************)
RECURSIVE NoResidual(_, _)
NoResidual(ty, view) ==
    \/ view.absent
    \/ /\ view.residual = JNULL
       /\ \A k \in 1..Len(Schema(ty)) :
            (Schema(ty)[k].kind = "nested" /\ view.f[k].present)
            => NoResidual(Schema(ty)[k].nested, view.f[k].sub)

C24_SourceKeptWithoutCapture ==
    /\ (rec.state # "none" /\ ~hist.fullkey)
         => /\ hist.src = doc.val
            /\ NoResidual(doc.ty, hist.recView)
            /\ (last.op = "make" /\ doc.tree # 0)
                 => SubSeq(heap, 1, doc.tree) = BuildVal(<<>>, doc.val).h
    /\ (rec.state = "made" /\ rec.a # 0 /\ doc.state = "parsed")
         => Footprint(rec.a) \cap Footprint(doc.tree) = {}
    /\ (rec.state = "made" /\ rec.a # 0 /\ doc.state = "freed")
         => Intact(rec, hist.recView)

\* a document with an unknown key, a string array and a nested object with
\* an unknown key of its own, decoded without capture; the tree has been
\* released and the record shows array and nested record
C24_Witness ==
    /\ ~hist.fullkey
    /\ rec.state = "made" /\ rec.a # 0
    /\ doc.state = "freed"
    /\ doc.ty = "features_linux"
    /\ doc.val.keys = <<"namespaces", "cgroup">>
    /\ hist.src = doc.val
    /\ hist.recView.f[Idx("features_linux", "namespaces")].elems = <<"pid">>
    /\ hist.recView.f[Idx("features_linux", "cgroup")].sub.residual = JNULL
    /\ Tri(hist.recView.f[Idx("features_linux", "cgroup")].sub.f[Idx("cgroup", "v1")])
         = "true"
    /\ Intact(rec, hist.recView)

(***************************************************************************)
(* C25: a tree that is no object.  Decoding a tree that is present but is  *)
(* a string or an array writes no warning and leaves the tree unchanged,   *)
(* whatever the options; when no allocation fails it allocates the record  *)
(* alone (nothing for a residual) and returns it with every member absent  *)
(* and no residual, OPT_PARSE_FULLKEY set or not, or, for the type with    *)
(* the required member, returns no record and the message naming "type".   *)
(***************************************************************************)
NonObjectDecoded == last.op = "make" /\ doc.tree # 0 /\ doc.val.t # "object"

C25_NonObjectInput ==
    NonObjectDecoded
    => /\ last.warn = 0
       /\ ~ub
       /\ hist.src = doc.val
       /\ SubSeq(heap, 1, doc.tree) = BuildVal(<<>>, doc.val).h
       /\ last.failAt = 0
            => IF doc.ty = "namespace_reference"
               THEN /\ MissingType
                    /\ Len(heap) = doc.tree + 2
                    /\ heap[doc.tree + 1].frees = 1
               ELSE /\ rec.a # 0
                    /\ Len(heap) = doc.tree + 1
                    /\ \A k \in 1..Len(hist.recView.f) : ~hist.recView.f[k].present
                    /\ hist.recView.residual = JNULL

\* the string "x" decoded as a cgroup with capture, strict mode and a sink
C25_Witness ==
    /\ NonObjectDecoded
    /\ doc.ty = "cgroup"
    /\ doc.val = JStr("x")
    /\ last.ctx = Ctx({OPT_PARSE_STRICT, OPT_PARSE_FULLKEY}, 1)
    /\ last.failAt = 0
    /\ rec.a # 0
    /\ heap[rec.a].residual = 0
    /\ \A k \in 1..Len(hist.recView.f) : ~hist.recView.f[k].present

(***************************************************************************)
(* C26: a tree that went through a capturing decode is no decode input any *)
(* more.  A decode with OPT_PARSE_FULLKEY that returned a record for an     *)
(* object with an unknown key leaves NULL key slots in that object.  A     *)
(* second decode of a tree, no allocation failing in it, hands a NULL key  *)
(* to strcmp in its unknown-key scan (undefined behaviour) exactly when an *)
(* object level it decodes holds a NULL key slot; and no decode, whatever  *)
(* allocation fails, runs into undefined behaviour on a tree whose decoded *)
(* object levels have none.                                                *)
(***************************************************************************)
\* an object level of v that a decode into ty scans holds a NULL key slot
RECURSIVE ScansNull(_, _)
ScansNull(ty, v) ==
    /\ v.t = "object"
    /\ \/ \E i \in 1..Len(v.keys) : v.keys[i] = NullKey
       \/ \E k \in 1..Len(Schema(ty)) :
            /\ Schema(ty)[k].kind = "nested"
            /\ PosOf(v, Schema(ty)[k].name) # 0
            /\ ScansNull(Schema(ty)[k].nested, v.values[PosOf(v, Schema(ty)[k].name)])

C26_CapturedTreeNotDecodable ==
    /\ (rec.state # "none" /\ hist.fullkey /\ ~hist.recView.absent
        /\ HasUnknown(doc.ty, doc.val))
         => \E i \in 1..Len(hist.src.keys) : hist.src.keys[i] = NullKey
    /\ (last.op = "make_again" /\ last.failAt = 0)
         => (ub <=> ScansNull(doc.ty, hist.src))
    /\ last.op = "make_again" => (ub => ScansNull(doc.ty, hist.src))
    /\ last.op = "make" => ~ub

\* {"v1": true, "unknownKey": "x"} decoded with capture, the record
\* released, the tree decoded once more: strcmp was handed the NULL key
C26_Witness ==
    /\ last.op = "make_again"
    /\ doc.ty = "cgroup"
    /\ doc.val = JObj(<<"v1", "unknownKey">>, <<JTrue, JStr("x")>>)
    /\ hist.src = JObj(<<"v1", NullKey>>, <<JTrue, JNULL>>)
    /\ rec.state = "made"
    /\ ub

(***************************************************************************)
(* C27: a wire name with a value of the wrong kind.  When a decode returns *)
(* a record for an object in which a known key carries a value of another  *)
(* kind than its member ("v1": "yes", "idmap": 5, "actions": "x", "path":   *)
(* true), that member is absent from the record, the key is not in the     *)
(* residual and keeps its slot in the source tree (the scan goes by name), *)
(* it does not make the warning be written, and an encode of the record    *)
(* without OPT_GEN_KEY_VALUE does not emit the key: the entry is lost.     *)
(***************************************************************************)
Fits(kind, t) ==
    CASE kind = "bool" -> t \in {"true", "false"}
      [] kind = "string" -> t = "string"
      [] kind = "strarr" -> t = "array"
      [] kind = "nested" -> t = "object"
Miskinded(ty, v, k) ==
    /\ PosOf(v, Schema(ty)[k].name) # 0
    /\ ~Fits(Schema(ty)[k].kind, v.values[PosOf(v, Schema(ty)[k].name)].t)
SomeMiskinded(ty, v) == \E k \in 1..Len(Schema(ty)) : Miskinded(ty, v, k)
InSeq(x, q) == \E i \in 1..Len(q) : q[i] = x

C27_MiskindedKeyDropped ==
    (rec.a # 0 /\ doc.val.t = "object")
    => /\ \A k \in 1..Len(Schema(doc.ty)) :
            Miskinded(doc.ty, doc.val, k)
            => /\ ~hist.recView.f[k].present
               /\ ~InSeq(Schema(doc.ty)[k].name, hist.recView.residual.keys)
               /\ hist.src.keys[PosOf(doc.val, Schema(doc.ty)[k].name)]
                    = Schema(doc.ty)[k].name
               /\ hist.src.values[PosOf(doc.val, Schema(doc.ty)[k].name)]
                    = doc.val.values[PosOf(doc.val, Schema(doc.ty)[k].name)]
               /\ (/\ last.op = "gen" /\ last.which = "rec" /\ ~GenKV)
                    => ~InSeq(Schema(doc.ty)[k].name, TopKeys(last.e.calls, 2, 0, TRUE))
       /\ (last.op = "make" /\ UnknownIdx(doc.ty, doc.val) = <<>>
           /\ SomeMiskinded(doc.ty, doc.val))
            => last.warn = 0

\* {"v1": "yes", "rdma": false} decoded with capture, then encoded: only
\* rdma comes out, the residual is empty and the tree still has "v1"
C27_Witness ==
    /\ doc.ty = "cgroup"
    /\ doc.val = JObj(<<"v1", "rdma">>, <<JStr("yes"), JFalse>>)
    /\ hist.fullkey
    /\ rec.a # 0
    /\ last.op = "gen" /\ last.which = "rec" /\ last.ctx.options = {}
    /\ hist.recView.residual = JObj(<<>>, <<>>)
    /\ hist.src = doc.val
    /\ last.e.calls = <<Ev("map_open", "", FALSE), Ev("string", "rdma", FALSE),
                        Ev("bool", "", FALSE), Ev("map_close", "", FALSE)>>

(***************************************************************************)
(* C28: detachment is not rolled back.  When a decode with                 *)
(* OPT_PARSE_FULLKEY fails in the parent after its nested records were     *)
(* decoded (the parent's residual cannot be allocated), the source tree    *)
(* keeps the NULL slots the nested decodes left in their objects, the      *)
(* entries detached there have been freed exactly once with the partial    *)
(* record, and so has every cell the call allocated.  A failed decode of a *)
(* type without nested records leaves the source tree as it was.           *)
(***************************************************************************)
\* document v after the nested decodes of a decode into ty, the scan of v
\* itself not having run
NestedAfter(ty, v) ==
    JObj(v.keys,
         [i \in 1..Len(v.keys) |->
            IF KindOf(ty, v.keys[i]) = "nested"
            THEN SourceAfter(Schema(ty)[Idx(ty, v.keys[i])].nested, v.values[i])
            ELSE v.values[i]])

\* the allocations of the decode just made, had none of them failed
Allocations ==
    make_record(doc.ty, Machine(BuildVal(<<>>, doc.val).h, 0), doc.tree, last.ctx).m.nalloc

FailedCapture ==
    /\ last.op = "make" /\ rec.a = 0 /\ doc.tree # 0
    /\ doc.val.t = "object" /\ hist.fullkey

\* the failed allocation was one of the three of the parent's residual
FailedAtResidual == FailedCapture /\ last.failAt >= Allocations - 2

C28_DetachNotRolledBack ==
    FailedCapture
    => /\ ~ub
       /\ \A a \in (doc.tree + 1)..Len(heap) : a # rec.err => heap[a].frees = 1
       /\ \A a \in 1..doc.tree :
            heap[a].frees = IF a \in Footprint(doc.tree) THEN 0 ELSE 1
       /\ hist.src \in {doc.val, NestedAfter(doc.ty, doc.val)}
       /\ FailedAtResidual => hist.src = NestedAfter(doc.ty, doc.val)
       /\ doc.ty \in {"namespace_reference", "cgroup", "seccomp"} => hist.src = doc.val

\* {"idmap": {"enabled": true, "u": "x"}, "unknownKey": "x"}: the eighth
\* allocation, the last of the parent's residual, failed; "u" is gone from
\* idmap and freed, "unknownKey" is still in the tree
C28_Witness ==
    /\ FailedAtResidual
    /\ last.failAt = 8
    /\ doc.ty = "mount_extensions"
    /\ doc.val = JObj(<<"idmap", "unknownKey">>,
                      <<JObj(<<"enabled", "u">>, <<JTrue, JStr("x")>>), JStr("x")>>)
    /\ hist.src = JObj(<<"idmap", "unknownKey">>,
                       <<JObj(<<"enabled", NullKey>>, <<JTrue, JNULL>>), JStr("x")>>)
    /\ \E a \in 1..doc.tree : heap[a] = [StrCell("u") EXCEPT !.frees = 1]
    /\ \A a \in (doc.tree + 1)..Len(heap) : heap[a].frees = 1

(***************************************************************************)
(* C29: the boolean presence invariant.  In every record decode returns    *)
(* and in every clone of one, nested records included, a boolean member    *)
(* whose _present flag is clear holds false.  gen_* writes the stored      *)
(* value whatever the flag says: with OPT_GEN_KEY_VALUE an absent boolean  *)
(* comes out as false, and the same member holding true with its flag      *)
(* clear would come out as true.                                           *)
(***************************************************************************)
RECURSIVE BoolsClear(_, _)
BoolsClear(ty, view) ==
    \A k \in 1..Len(Schema(ty)) :
      /\ (Schema(ty)[k].kind = "bool" /\ ~view.f[k].present) => ~view.f[k].b
      /\ (Schema(ty)[k].kind = "nested" /\ view.f[k].present)
           => BoolsClear(Schema(ty)[k].nested, view.f[k].sub)

\* the calls of gen_* for the boolean member name of record a in heap h
\* under OPT_GEN_KEY_VALUE
BoolShown(h, a, name) ==
    GenBool(Emitter(0), h, a, name, Ctx({OPT_GEN_KEY_VALUE}, 0)).calls

AbsentBools(a) ==
    {k \in 1..Len(Schema(doc.ty)) :
       Schema(doc.ty)[k].kind = "bool" /\ ~heap[a].f[Schema(doc.ty)[k].name].present}

C29_AbsentBoolIsFalse ==
    \A w \in {"rec", "cln"} :
      (Ptr(w).state = "made" /\ Ptr(w).a # 0)
      => /\ BoolsClear(doc.ty, RecView(heap, doc.ty, Ptr(w).a))
         /\ \A k \in AbsentBools(Ptr(w).a) :
              /\ BoolShown(heap, Ptr(w).a, Schema(doc.ty)[k].name)
                   = <<Ev("string", Schema(doc.ty)[k].name, FALSE), Ev("bool", "", FALSE)>>
              /\ BoolShown([heap EXCEPT ![Ptr(w).a].f[Schema(doc.ty)[k].name].b = TRUE],
                           Ptr(w).a, Schema(doc.ty)[k].name)
                   = <<Ev("string", Schema(doc.ty)[k].name, FALSE), Ev("bool", "", TRUE)>>

\* the clone of the record of {"v1": true}, encoded with OPT_GEN_KEY_VALUE:
\* v1 true, the four absent members false
C29_Witness ==
    /\ doc.ty = "cgroup"
    /\ doc.val = JObj(<<"v1">>, <<JTrue>>)
    /\ cln.state = "made" /\ cln.a # 0
    /\ last.op = "gen" /\ last.which = "cln" /\ GenKV
    /\ AbsentBools(cln.a) = {2, 3, 4, 5}
    /\ last.e.calls = <<Ev("map_open", "", FALSE),
                        Ev("string", "v1", FALSE), Ev("bool", "", TRUE),
                        Ev("string", "v2", FALSE), Ev("bool", "", FALSE),
                        Ev("string", "systemd", FALSE), Ev("bool", "", FALSE),
                        Ev("string", "systemdUser", FALSE), Ev("bool", "", FALSE),
                        Ev("string", "rdma", FALSE), Ev("bool", "", FALSE),
                        Ev("map_close", "", FALSE)>>

(***************************************************************************)
(* C30: emission is well bracketed.  The calls of every encode that        *)
(* returns ok are one JSON value: each open-object is closed by a          *)
(* close-object and each open-array by a close-array, innermost first;     *)
(* inside an object a key is followed at once by exactly one value (a      *)
(* scalar, an array or an object) and then by the next key or the close;   *)
(* nothing follows the close of the outermost object.                      *)
(***************************************************************************)
IsScalar(ev) == ev.op \in {"string", "number", "bool", "null"}

\* calls[i..] continue a value inside the frames of stack, innermost last:
\* "key" an object where a key or its close is due, "value" an object where
\* the value of a key is due, "array" an array.  A frame that receives a
\* value is moved on before the value's own frame is opened.
RECURSIVE Bracketed(_, _, _)
Bracketed(calls, i, stack) ==
    IF i > Len(calls) THEN stack = <<>> /\ i > 1
    ELSE IF stack = <<>>
    THEN i = 1 /\ calls[1].op = "map_open" /\ Bracketed(calls, 2, <<"key">>)
    ELSE IF stack[Len(stack)] = "key"
    THEN \/ /\ calls[i].op = "string"
            /\ Bracketed(calls, i + 1, [stack EXCEPT ![Len(stack)] = "value"])
         \/ /\ calls[i].op = "map_close"
            /\ Bracketed(calls, i + 1, SubSeq(stack, 1, Len(stack) - 1))
    ELSE IF calls[i].op = "array_close"
    THEN /\ stack[Len(stack)] = "array"
         /\ Bracketed(calls, i + 1, SubSeq(stack, 1, Len(stack) - 1))
    ELSE /\ calls[i].op # "map_close"
         /\ Bracketed(calls, i + 1,
                      [stack EXCEPT ![Len(stack)] = IF @ = "value" THEN "key" ELSE @]
                        \o (IF calls[i].op = "map_open" THEN <<"key">>
                            ELSE IF calls[i].op = "array_open" THEN <<"array">>
                            ELSE <<>>))

C30_WellBracketed ==
    Generated => Bracketed(last.e.calls, 1, <<>>)

\* a record with a string array and a nested record that holds a residual,
\* encoded with OPT_GEN_KEY_VALUE: absent arrays and absent nested records
\* are written out as well
C30_Witness ==
    /\ Generated
    /\ GenKV
    /\ last.which = "rec"
    /\ doc.ty = "features_linux"
    /\ doc.val.keys = <<"namespaces", "cgroup">>
    /\ hist.fullkey
    /\ Len(SelectSeq(last.e.calls, LAMBDA ev : ev.op = "map_open")) = 9
    /\ Len(SelectSeq(last.e.calls, LAMBDA ev : ev.op = "map_close")) = 9
    /\ Len(SelectSeq(last.e.calls, LAMBDA ev : ev.op = "array_open")) = 7
    /\ Bracketed(last.e.calls, 1, <<>>)
====
